---- MODULE Spec2Model ----
(***************************************************************************)
(* A model of the bracket-parsing pipeline of analyze.py (get_game,        *)
(* get_game_from_wikipedia, get_bracket_info, TeamResult.game_from_match,  *)
(* TeamResult.fix_seeding, TeamResult.__init__, from_nfl_pieces) and of    *)
(* the part of university.normalize_team_name those functions run on the   *)
(* team names used here.                                                   *)
(*                                                                         *)
(* Text is a sequence of one-character strings (seed and score values) or  *)
(* a sequence of blank-separated words (team names).  A field line         *)
(* "RD<rd>-<kind><idx><tail>=<val>" is the record                          *)
(* [rd, kind, idx, tail, val].                                             *)
(***************************************************************************)
EXTENDS Integers, Sequences, FiniteSets, TLC

VARIABLES
    flags,          \* analyze.Flags: is_tennis, is_professional, num_teams, multi_elim, is_national
    disambiguator,  \* the suffix map handed to normalize_team_name
    page,           \* the brackets of the page, in document order
    pc,             \* where get_game is: "start", "bracket", "match", "done", "error"
    bi,             \* number of brackets taken from get_bracket so far
    bracket_info,   \* get_bracket_info of the current bracket
    ri,             \* index of the current round in bracket_info  (0-based, as in the code)
    mi,             \* index of the next match in the current round (0-based)
    match_info,     \* the lines of the match handed to game_from_match last
    result,         \* what game_from_match did with match_info
    games,          \* the games get_game has yielded so far, each with its place
    err,            \* the exception that left get_game, "" if none
    team_num,       \* fix_seeding's team_num argument: <<round, index>>
    team_data,      \* fix_seeding's team_data argument before the call
    seed_out,       \* team_data['seed'] after fix_seeding, -1 before the call
    content,        \* the text of a page as get_bracket receives it
    cleaned,        \* the text after the cleaning passes of get_bracket
    recleaned,      \* the cleaned text after the cleaning passes once more
    raw_name,       \* a team name as normalize_team_name receives it
    name_once,      \* normalize_team_name of raw_name
    name_twice,     \* normalize_team_name of name_once
    clues,          \* the phrases of the tables that occur in the content get_disambiguator receives
    team_name_from, \* university._team_name_from, the names normalize_team_name has seen
    calls,          \* what each call of get_disambiguator found in _team_name_from and returned
    bracket_lines,  \* the lines of a bracket as get_bracket_info receives them
    match_data,     \* what get_match_data made of match_info, or the exception it raised
    team_renames,   \* university._team_renames, loaded from team_renames.json at import
    prof_name,      \* the name normalize_professional_name is called with
    prof_league,    \* the tourney it is called with
    prof_out,       \* what it returned
    potential_titles, \* create_wiki_cache: the titles still to try
    wiki,           \* what the wiki answers for each title
    cache_from,     \* the title the cache file was written from, "" when not written
    depth,          \* the calls of create_wiki_cache on the stack
    cache_ret,      \* what create_wiki_cache returned, or the exception it raised
    rep_source,     \* get_bracket: the words of the page it was called with
    rep_page,       \* the words of content, as the replacements have left it
    rep_table,      \* disambiguator['replacement']
    rep_todo,       \* the keys the loop of line 275 has still to come to
    rep_applied     \* the keys it has been through

clean_vars == <<content, cleaned, recleaned>>

name_vars == <<raw_name, name_once, name_twice>>

disamb_vars == <<clues, team_name_from, calls>>

grouping_vars == <<bracket_lines, match_data>>

\* the variables of the functions that are run on a text of their own
table_vars == <<team_renames>>

\* the variables of the specifications that follow SpecBracket
prof_vars == <<prof_name, prof_league, prof_out>>

cache_vars == <<potential_titles, wiki, cache_from, depth, cache_ret>>

replace_vars == <<rep_source, rep_page, rep_table, rep_todo, rep_applied>>

later_vars == <<table_vars, prof_vars, cache_vars, replace_vars>>

aside_vars == <<clean_vars, name_vars, disamb_vars, grouping_vars, later_vars>>

\* the variables of get_game and of the functions it calls, but for pc
called_vars == <<flags, disambiguator, page, bi, bracket_info, ri, mi, match_info,
                 result, games, err, team_num, team_data, seed_out>>

\* the variables of get_game and of the functions it calls
pipeline_vars == <<flags, disambiguator, page, pc, bi, bracket_info, ri, mi, match_info,
                   result, games, err, team_num, team_data, seed_out>>

vars == <<pipeline_vars, aside_vars>>

MAX_SEED == 20

(***************************************************************************)
(* Characters and integers.                                                *)
(***************************************************************************)
Digits == {"0", "1", "2", "3", "4", "5", "6", "7", "8", "9"}

IsDigit(c) == c \in Digits

DigitVal(c) ==
    CASE c = "0" -> 0 [] c = "1" -> 1 [] c = "2" -> 2 [] c = "3" -> 3
      [] c = "4" -> 4 [] c = "5" -> 5 [] c = "6" -> 6 [] c = "7" -> 7
      [] c = "8" -> 8 [] c = "9" -> 9

AllDigits(s) == \A i \in 1..Len(s) : IsDigit(s[i])

\* int() of a non-empty run of digits
RECURSIVE IntOfDigits(_)
IntOfDigits(s) ==
    IF s = <<>> THEN 0
    ELSE 10 * IntOfDigits(SubSeq(s, 1, Len(s) - 1)) + DigitVal(s[Len(s)])

\* re.sub(r'\D', '', s)
RECURSIVE OnlyDigits(_)
OnlyDigits(s) ==
    IF s = <<>> THEN <<>>
    ELSE IF IsDigit(Head(s)) THEN <<Head(s)>> \o OnlyDigits(Tail(s))
    ELSE OnlyDigits(Tail(s))

\* str.strip(chars): drop the characters of cs from both ends
RECURSIVE LStrip(_, _)
LStrip(s, cs) ==
    IF s # <<>> /\ Head(s) \in cs THEN LStrip(Tail(s), cs) ELSE s

RECURSIVE RStrip(_, _)
RStrip(s, cs) ==
    IF s # <<>> /\ s[Len(s)] \in cs THEN RStrip(SubSeq(s, 1, Len(s) - 1), cs) ELSE s

StripChars(s, cs) == RStrip(LStrip(s, cs), cs)

Strip(s) == StripChars(s, {" "})

\* [x] * n: the empty list when n <= 0
Rep(x, n) == IF n > 0 THEN [i \in 1..n |-> x] ELSE <<>>

(***************************************************************************)
(* TeamResult.fix_seeding                                                  *)
(***************************************************************************)
\* the places i < j of a "(" and a ")" with one or more digits and nothing else between
ParenNumbers(s) ==
    {p \in (1..Len(s)) \X (1..Len(s)) :
        /\ p[1] + 1 < p[2]
        /\ s[p[1]] = "("
        /\ s[p[2]] = ")"
        /\ AllDigits(SubSeq(s, p[1] + 1, p[2] - 1))}

\* re.sub(r'^.*\((\d+)\).*$', r'\1', s): the greedy .* keeps the last one
LastParenNumber(s) ==
    LET p == CHOOSE q \in ParenNumbers(s) : \A o \in ParenNumbers(s) : o[1] <= q[1]
    IN  IntOfDigits(SubSeq(s, p[1] + 1, p[2] - 1))

\* the places of the "-" of a text that fully matches \d+-\d+
RangeDash(s) ==
    {k \in 2..(Len(s) - 1) :
        /\ s[k] = "-"
        /\ AllDigits(SubSeq(s, 1, k - 1))
        /\ AllDigits(SubSeq(s, k + 1, Len(s)))}

clamp_seed(n) == IF MAX_SEED < n THEN MAX_SEED ELSE n

\* the seed read from the digits of the text alone
seed_from_text_digits_only(s) == clamp_seed(IntOfDigits(OnlyDigits(s)))

\* analyze.py 194-201: the seed of a text that holds a digit
seed_from_text(s) ==
    clamp_seed(
        IF ParenNumbers(s) # {} THEN LastParenNumber(s)
        ELSE IF RangeDash(s) # {}
             THEN IntOfDigits(SubSeq(s, 1, (CHOOSE k \in RangeDash(s) : TRUE) - 1))
        ELSE IntOfDigits(OnlyDigits(s)))

\* analyze.py 208-216, without the unused '' at index 0 of each list
default_seeding ==
    (2 :> <<1, 2>>) @@
    (3 :> <<2, 3>>) @@
    (4 :> <<1, 4, 3, 2>>) @@
    (6 :> <<4, 5, 3, 6, 1, 2>>) @@
    (8 :> <<1, 8, 4, 5, 2, 7, 3, 6>>) @@
    (11 :> <<8, 9, 7, 10, 6, 11>>) @@
    (16 :> <<1, 16, 8, 9, 5, 12, 4, 13, 6, 11, 3, 14, 7, 10, 2, 15>>)

\* the lookup read from position 0 of a list without its unused first entry
default_seed_from_zero(n, p) ==
    IF n \in DOMAIN default_seeding /\ p + 1 <= Len(default_seeding[n])
    THEN default_seeding[n][p + 1]
    ELSE 0

\* analyze.py 217-220
default_seed(n, p) ==
    IF n \in DOMAIN default_seeding /\ p <= Len(default_seeding[n])
    THEN default_seeding[n][p]
    ELSE 0

\* the branches with the default taken by the first side of a match, in any round
seed_branch_first_slot(tn, td, fl) ==
    IF td.hasSeed /\ (\E i \in 1..Len(td.seed) : IsDigit(td.seed[i])) THEN "text"
    ELSE IF fl.num_teams # -1 /\ ~td.hasSeed /\ tn[2] = 1 THEN "default"
    ELSE "zero"

\* which of the three branches of fix_seeding a side takes
seed_branch(tn, td, fl) ==
    IF td.hasSeed /\ (\E i \in 1..Len(td.seed) : IsDigit(td.seed[i])) THEN "text"
    ELSE IF fl.num_teams # -1 /\ ~td.hasSeed /\ tn[1] = 1 THEN "default"
    ELSE "zero"

\* team_data['seed'] after fix_seeding(team_num, team_data, flags)
fix_seeding(tn, td, fl) ==
    CASE seed_branch(tn, td, fl) = "text" -> seed_from_text(td.seed)
      [] seed_branch(tn, td, fl) = "default" -> default_seed(fl.num_teams, tn[2])
      [] OTHER -> 0

(***************************************************************************)
(* Team names: sequences of words.  The words of the model.                *)
(***************************************************************************)
\* the characters of a word: the digits of a number, a letter for any other word
Spell(t) ==
    CASE t = "1" -> <<"1">>
      [] t = "3" -> <<"3">>
      [] t = "7" -> <<"7">>
      [] t = "10" -> <<"1", "0">>
      [] t = "25" -> <<"2", "5">>
      [] OTHER -> <<"x">>

\* the characters of a text of words, one blank between two words
RECURSIVE SpellAll(_)
SpellAll(ws) ==
    IF ws = <<>> THEN <<>>
    ELSE IF Len(ws) = 1 THEN Spell(ws[1])
    ELSE Spell(ws[1]) \o <<" ">> \o SpellAll(Tail(ws))

\* the word is a number
IsNumTok(t) == AllDigits(Spell(t))

\* university.py 814-818: 'at ' and a leading number followed by a blank are removed
team_remove_prefix(value) ==
    LET v1 == IF Len(value) >= 2 /\ value[1] = "at" THEN Tail(value) ELSE value
    IN  IF Len(v1) >= 2 /\ IsNumTok(v1[1]) THEN Tail(v1) ELSE v1

\* university.py 764-786: the trailing decorations of the model's words are its
\* trailing numbers (a ranking \#?\d, a record \d+ \d+( \d+)?)
RECURSIVE team_rstrip_common(_)
team_rstrip_common(value) ==
    IF value # <<>> /\ IsNumTok(value[Len(value)])
    THEN team_rstrip_common(SubSeq(value, 1, Len(value) - 1))
    ELSE value

\* university.py 807-811, one turn of the loop over all_states: a trailing
\* 'Oklahoma' goes when what is left still names the state
drop_trailing_state(value) ==
    LET potential == SubSeq(value, 1, Len(value) - 1)
    IN  IF /\ Len(value) >= 2
           /\ value[Len(value)] = "Oklahoma"
           /\ \E i \in 1..Len(potential) : potential[i] = "Oklahoma"
        THEN potential
        ELSE value

\* university.py 789-811 on the model's words: all_states (university.py 99)
\* lists Oklahoma twice, for OK and for OKLA, so the loop has two turns for it
team_remove_suffix(value) == drop_trailing_state(drop_trailing_state(value))

\* university.py 178-326, the alias among the model's words:
\* 'Augusta( State)?( Georgia)?': 'Augusta'
versions ==
    { [pattern |-> {<<"Augusta">>, <<"Augusta", "State">>}, output |-> <<"Augusta">>] }

\* the aliases whose pattern the whole value matches
versions_matching(value) == {v \in versions : value \in v.pattern}

\* university.py 913-914: value.replace(' State', '') when the value has
\* 'Oklahoma' and 'State' and is not 'Oklahoma State'
oklahoma_state_rule(value) ==
    IF /\ \E i \in 1..Len(value) : value[i] = "Oklahoma"
       /\ \E i \in 1..Len(value) : value[i] = "State"
       /\ value # <<"Oklahoma", "State">>
    THEN <<value[1]>> \o SelectSeq(Tail(value), LAMBDA w : w # "State")
    ELSE value

\* university.py 912-915: the suffix map, the Oklahoma rule, the rename table
after_versions(value, d) ==
    LET suffixed_value == IF value \in DOMAIN d THEN d[value] ELSE value
        ruled == oklahoma_state_rule(suffixed_value)
    IN  IF ruled \in DOMAIN team_renames THEN team_renames[ruled] ELSE ruled

\* normalize_team_name with the alias sent through the stages that follow it
normalize_team_name_alias_through(team_name, d) ==
    LET value == team_remove_suffix(team_rstrip_common(team_remove_prefix(team_name)))
    IN  IF versions_matching(value) # {}
        THEN after_versions((CHOOSE v \in versions_matching(value) : TRUE).output, d)
        ELSE after_versions(value, d)

\* university.py 883-921 on the model's words: no word has a hyphen, is an
\* abbreviation or a state-university city, so the stages that change a name are
\* the prefix, the trailing decoration, the trailing state, the alias table
\* (which returns), the suffix map, the Oklahoma rule and the rename table
normalize_team_name(team_name, d) ==
    LET value == team_remove_suffix(team_rstrip_common(team_remove_prefix(team_name)))
    IN  IF versions_matching(value) # {}
        THEN (CHOOSE v \in versions_matching(value) : TRUE).output
        ELSE after_versions(value, d)

\* university.py 329-361, the cities among the model's words, in the order of
\* the table (CA before TX, Dallas before Houston)
cities_in_state == << <<"Los", "Angeles">>, <<"Dallas">>, <<"Houston">> >>

\* university.py 168-174, the NFL cities with two teams among the model's words
professional_keep_team == { <<"Los", "Angeles">> }

\* university.py 126-167, the NFL renames among the model's words
professional_renames ==
    (<<"Oakland">> :> <<"Vegas">>) @@ (<<"Los", "Angeles", "Raiders">> :> <<"Vegas">>)

\* university.py 831, value.replace('LA ', 'Los Angeles '): every 'LA' that a
\* blank follows is rewritten, at the start of the name or not, as a word of
\* its own or as the end of a longer word
RECURSIVE replace_la(_)
replace_la(value) ==
    IF Len(value) <= 1 THEN value
    ELSE CASE value[1] = "LA" -> <<"Los", "Angeles">> \o replace_la(Tail(value))
           [] value[1] = "UCLA" -> <<"UCLos", "Angeles">> \o replace_la(Tail(value))
           [] OTHER -> <<value[1]>> \o replace_la(Tail(value))

\* a text of words holds the words of city next to each other
Contains(value, city) ==
    \E i \in 1..(Len(value) - Len(city) + 1) : SubSeq(value, i, i + Len(city) - 1) = city

\* university.py 832-835: the name becomes the first city of the table it holds
\* that is not one of the league's cities with two teams; no city of the table
\* is part of another, so no later city is found in the city that was taken
collapse_to_city(value) ==
    LET hit == {i \in 1..Len(cities_in_state) :
                   /\ Contains(value, cities_in_state[i])
                   /\ cities_in_state[i] \notin professional_keep_team}
    IN  IF hit = {} THEN value
        ELSE cities_in_state[CHOOSE i \in hit : \A j \in hit : i <= j]

\* university.py 828-841 for the league NFL (tourney is 'NFL' or 'NFL_', both
\* read the tables of 'NFL')
normalize_professional_name(team_name, tourney) ==
    LET value == collapse_to_city(replace_la(team_name))
    IN  IF value \in DOMAIN professional_renames THEN professional_renames[value] ELSE value

(***************************************************************************)
(* TeamResult                                                              *)
(***************************************************************************)
\* analyze.py 123-129: a seed of 0 is taken from a number the team starts with
TeamResult(seed, team, score) ==
    IF seed = 0 /\ Len(team) >= 2 /\ IsNumTok(team[1]) /\ ~IsNumTok(team[2])
    THEN [seed |-> IntOfDigits(Spell(team[1])), team |-> Tail(team), score |-> score]
    ELSE [seed |-> seed, team |-> team, score |-> score]

\* int(): an optional sign and one or more digits
IsIntLiteral(s) ==
    \/ s # <<>> /\ AllDigits(s)
    \/ Len(s) >= 2 /\ s[1] = "-" /\ AllDigits(Tail(s))

IntOf(s) == IF s[1] = "-" THEN 0 - IntOfDigits(Tail(s)) ELSE IntOfDigits(s)

\* the character U+2020
Dagger == "dagger"

\* analyze.py 182-185
parse_score(val) ==
    LET t == StripChars(Strip(val), {"*", Dagger, " ", "(", "O", "T", ")"})
    IN  IF IsIntLiteral(t) THEN IntOf(t) ELSE 0

(***************************************************************************)
(* TeamResult.get_match_data: the sides of a match in the order in which   *)
(* their first line occurs (a dict keeps insertion order).                 *)
(***************************************************************************)
NoSide(num) ==
    [num |-> num, hasTeam |-> FALSE, team |-> <<>>, hasSeed |-> FALSE, seed |-> <<>>,
     hasScores |-> FALSE, scores |-> <<>>]

\* the side after one of its lines, a score put in place of the scores before it
side_with_line_overwriting(side, line, fl, d) ==
    CASE line.kind = "team" ->
            [side EXCEPT !.hasTeam = TRUE,
                         !.team = IF fl.is_tennis THEN <<"tennis">>
                                  ELSE IF fl.is_professional # ""
                                       THEN normalize_professional_name(
                                                normalize_team_name(line.val, d),
                                                fl.is_professional)
                                  ELSE normalize_team_name(line.val, d)]
      [] line.kind = "seed" ->
            [side EXCEPT !.hasSeed = TRUE, !.seed = Strip(line.val)]
      [] OTHER ->
            [side EXCEPT !.hasScores = TRUE, !.scores = <<parse_score(line.val)>>]

\* analyze.py 169-188: the side after one of its lines
side_with_line(side, line, fl, d) ==
    CASE line.kind = "team" ->
            [side EXCEPT !.hasTeam = TRUE,
                         !.team = IF fl.is_tennis THEN <<"tennis">>
                                  ELSE IF fl.is_professional # ""
                                       THEN normalize_professional_name(
                                                normalize_team_name(line.val, d),
                                                fl.is_professional)
                                  ELSE normalize_team_name(line.val, d)]
      [] line.kind = "seed" ->
            [side EXCEPT !.hasSeed = TRUE, !.seed = Strip(line.val)]
      [] OTHER ->
            [side EXCEPT !.hasScores = TRUE, !.scores = Append(@, parse_score(line.val))]

RECURSIVE match_data_from(_, _, _, _)
match_data_from(lines, acc, fl, d) ==
    IF lines = <<>> THEN acc
    ELSE LET line == Head(lines)
             num == <<line.rd, line.idx>>
             at == {i \in 1..Len(acc) : acc[i].num = num}
             acc1 == IF at = {} THEN Append(acc, NoSide(num)) ELSE acc
             i == CHOOSE j \in 1..Len(acc1) : acc1[j].num = num
         IN  match_data_from(Tail(lines),
                             [acc1 EXCEPT ![i] = side_with_line(acc1[i], line, fl, d)],
                             fl, d)

\* analyze.py 165-188: the sides, when every line has the pattern of line 165
get_match_data(lines, fl, d) == match_data_from(lines, <<>>, fl, d)

\* analyze.py 165: RD(\d+)-(team|seed|scores?)(\d+).*=(.*)$
field_pattern(line) == line.eq /\ line.kind \in {"team", "seed", "score", "scores"}

\* analyze.py 166: assert matched is not None
get_match_data_raises(lines) == \E k \in 1..Len(lines) : ~field_pattern(lines[k])

(***************************************************************************)
(* TeamResult.game_from_match                                              *)
(***************************************************************************)
\* analyze.py 231-232: the side with its seed resolved
with_seed(side, fl) ==
    [num |-> side.num, hasTeam |-> side.hasTeam, team |-> side.team,
     hasScores |-> side.hasScores, scores |-> side.scores,
     seed |-> fix_seeding(side.num, side, fl)]

\* analyze.py 153-155, called after fix_seeding has set 'seed'
dict_has_match_data(td) ==
    \/ td.hasTeam /\ td.team # <<>>
    \/ td.seed # 0
    \/ td.hasScores /\ td.scores # <<>>

Returned(sentinel) == [ret |-> sentinel, err |-> "", games |-> <<>>]

Raised(exception) == [ret |-> "", err |-> exception, games |-> <<>>]

\* analyze.py 243-245
is_tally(sides, fl) ==
    /\ fl.multi_elim
    /\ {Len(sides[i].scores) : i \in 1..Len(sides)} = {1}
    /\ \A i \in 1..Len(sides) : sides[i].scores[1] < 5

\* the games won by a side credited to the other side
tally_sides_swapped(sides) ==
    LET score_a == sides[1].scores[1]
        score_b == sides[2].scores[1]
    IN  << [sides[1] EXCEPT !.scores = Rep(0, score_a) \o Rep(1, score_b)],
           [sides[2] EXCEPT !.scores = Rep(1, score_a) \o Rep(0, score_b)] >>

\* analyze.py 247-251: the two scores read as games won by each side
tally_sides(sides) ==
    LET score_a == sides[1].scores[1]
        score_b == sides[2].scores[1]
    IN  << [sides[1] EXCEPT !.scores = Rep(1, score_a) \o Rep(0, score_b)],
           [sides[2] EXCEPT !.scores = Rep(0, score_a) \o Rep(1, score_b)] >>

\* the zip with the series of every side but the first read backwards
zip_series_crossed(sides) ==
    LET n == Len(sides[1].scores)
    IN  IF n > 0 /\ \E i \in 1..Len(sides) : ~sides[i].hasTeam
        THEN Raised("KeyError: 'team'")
        ELSE [ret |-> "exhausted", err |-> "",
              games |-> [k \in 1..n |->
                            [i \in 1..Len(sides) |->
                                TeamResult(sides[i].seed, sides[i].team,
                                           sides[i].scores[IF i = 1 THEN k ELSE n + 1 - k])]]]

\* analyze.py 146-151 and 252: zip of the sides' team_from_series
zip_series(sides) ==
    LET n == Len(sides[1].scores)
    IN  IF n > 0 /\ \E i \in 1..Len(sides) : ~sides[i].hasTeam
        THEN Raised("KeyError: 'team'")
        ELSE [ret |-> "exhausted", err |-> "",
              games |-> [k \in 1..n |->
                            [i \in 1..Len(sides) |->
                                TeamResult(sides[i].seed, sides[i].team, sides[i].scores[k])]]]

\* the gate with the test for a side without scores put first
gate_any_first(sides) ==
    IF \E i \in 1..Len(sides) : ~sides[i].hasScores THEN "missing score"
    ELSE IF \A i \in 1..Len(sides) : ~sides[i].hasScores THEN "no scores"
    ELSE IF ~(\A i \in 1..Len(sides) : dict_has_match_data(sides[i])) THEN "missing data"
    ELSE ""

\* analyze.py 233-238: the sentinel the validation gate returns, "" if it lets the match pass
gate(sides) ==
    IF \A i \in 1..Len(sides) : ~sides[i].hasScores THEN "no scores"
    ELSE IF \E i \in 1..Len(sides) : ~sides[i].hasScores THEN "missing score"
    ELSE IF ~(\A i \in 1..Len(sides) : dict_has_match_data(sides[i])) THEN "missing data"
    ELSE ""

\* differing lengths answered with a sentinel instead of an exception
games_of_sides_soft(sides, fl) ==
    IF Cardinality({Len(sides[i].scores) : i \in 1..Len(sides)}) # 1
    THEN Returned("differing number of scores")
    ELSE IF is_tally(sides, fl)
    THEN IF Len(sides) # 2
         THEN Raised("ValueError: not enough values to unpack")
         ELSE zip_series(tally_sides(sides))
    ELSE zip_series(sides)

\* analyze.py 239-253: a match that passed the gate
games_of_sides(sides, fl) ==
    IF Cardinality({Len(sides[i].scores) : i \in 1..Len(sides)}) # 1
    THEN Raised("KeyError: 'differing number of scores'")
    ELSE IF is_tally(sides, fl)
    THEN IF Len(sides) # 2
         THEN Raised("ValueError: not enough values to unpack")
         ELSE zip_series(tally_sides(sides))
    ELSE zip_series(sides)

\* analyze.py 224-253
game_from_match(lines, fl, d) ==
    LET md == get_match_data(lines, fl, d)
        sides == [i \in 1..Len(md) |-> with_seed(md[i], fl)]
    IN  IF get_match_data_raises(lines) THEN Raised("AssertionError")
        ELSE IF gate(sides) # "" THEN Returned(gate(sides)) ELSE games_of_sides(sides, fl)

\* the swap taken on a tie as well
winner_first_on_tie(game) ==
    IF game[1].score <= game[2].score THEN <<game[2], game[1]>> ELSE game

\* analyze.py 365-366
winner_first(game) ==
    IF game[1].score < game[2].score THEN <<game[2], game[1]>> ELSE game

(***************************************************************************)
(* get_bracket_info                                                        *)
(***************************************************************************)
\* analyze.py 304-306: the lines the grouping keeps
is_grouped(line) ==
    /\ line.kind \in {"seed", "team", "score"}
    /\ ~(line.kind = "score" /\ line.tail = "-agg")

\* the match number without the step up: 2n and 2n+1 in one match
match_num_of_floor(idx) == idx \div 2

\* analyze.py 308
match_num_of(idx) == (idx + 1) \div 2

SeqMax(f) == CHOOSE x \in {f[i] : i \in 1..Len(f)} : \A i \in 1..Len(f) : f[i] <= x

\* the grouping with the rounds in descending order
get_bracket_info_descending(lines) ==
    LET kept == SelectSeq(lines, is_grouped)
        last == SeqMax([i \in 1..Len(kept) |-> kept[i].rd])
        of_round(r) == LET in_round(l) == l.rd = r IN SelectSeq(kept, in_round)
        of_match(ls, m) == LET in_match(l) == match_num_of(l.idx) = m IN SelectSeq(ls, in_match)
        round_info(r) ==
            LET ls == of_round(r)
            IN  IF ls = <<>> THEN <<>>
                ELSE [m1 \in 1..(SeqMax([i \in 1..Len(ls) |-> match_num_of(ls[i].idx)]) + 1) |->
                         of_match(ls, m1 - 1)]
    IN  IF kept = <<>> THEN <<>>
        ELSE [r1 \in 1..(last + 1) |-> round_info(last + 1 - r1)]

\* analyze.py 301-314.  bracket_info[r + 1][m + 1] is the code's bracket_info[r][m]
get_bracket_info(lines) ==
    LET kept == SelectSeq(lines, is_grouped)
        of_round(r) == LET in_round(l) == l.rd = r IN SelectSeq(kept, in_round)
        of_match(ls, m) == LET in_match(l) == match_num_of(l.idx) = m IN SelectSeq(ls, in_match)
        round_info(r) ==
            LET ls == of_round(r)
            IN  IF ls = <<>> THEN <<>>
                ELSE [m1 \in 1..(SeqMax([i \in 1..Len(ls) |-> match_num_of(ls[i].idx)]) + 1) |->
                         of_match(ls, m1 - 1)]
    IN  IF kept = <<>> THEN <<>>
        ELSE [r1 \in 1..(SeqMax([i \in 1..Len(kept) |-> kept[i].rd]) + 1) |-> round_info(r1 - 1)]

(***************************************************************************)
(* The NFL path                                                            *)
(***************************************************************************)
\* analyze.py 320: line.rstrip('|').split('|'); a row is the texts between its pipes
RECURSIVE nfl_pieces(_)
nfl_pieces(row) ==
    IF Len(row) > 1 /\ row[Len(row)] = <<>> THEN nfl_pieces(SubSeq(row, 1, Len(row) - 1))
    ELSE row

\* analyze.py 138-144; int(score) raises ValueError on a text that is no integer
nfl_score_ok(score) == IsIntLiteral(SpellAll(score))

from_nfl_pieces(seed, name, score, d) ==
    LET seed_ == OnlyDigits(SpellAll(seed))
        seed_int == IF seed_ = <<>> THEN 0 ELSE IntOfDigits(seed_)
        name_out == normalize_professional_name(normalize_team_name(name, d), "NFL")
    IN  TeamResult(seed_int, name_out, IntOf(SpellAll(score)))

\* analyze.py 317-324: the games of the rows, up to the first row that raises
RECURSIVE nfl_from(_, _, _)
nfl_from(rows, d, n) ==
    IF rows = <<>> THEN [games |-> <<>>, err |-> ""]
    ELSE LET pieces == nfl_pieces(Head(rows))
             k == Len(pieces)
             rest == nfl_from(Tail(rows), d, n + 1)
         IN  IF k < 6 THEN rest
             ELSE IF ~nfl_score_ok(pieces[k - 3]) \/ ~nfl_score_ok(pieces[k])
             THEN [games |-> <<>>, err |-> "ValueError: invalid literal for int()"]
             ELSE [games |-> << [row |-> n,
                                 game |-> << from_nfl_pieces(pieces[k - 5], pieces[k - 4], pieces[k - 3], d),
                                             from_nfl_pieces(pieces[k - 2], pieces[k - 1], pieces[k], d) >>] >>
                                \o rest.games,
                   err |-> rest.err]

get_game_from_nfl_bracket(rows, d) == nfl_from(rows, d, 1)

(***************************************************************************)
(* Inputs                                                                  *)
(***************************************************************************)
\* the line RD<rd>-<kind><idx><tail>=<val>
Field(rd, kind, idx, tail, val) ==
    [rd |-> rd, kind |-> kind, idx |-> idx, tail |-> tail, val |-> val, eq |-> TRUE]

\* the line RD<rd>-<kind><idx>, a key with no '=' after it
KeyOnly(rd, kind, idx) ==
    [rd |-> rd, kind |-> kind, idx |-> idx, tail |-> "", val |-> <<>>, eq |-> FALSE]

\* a line that holds no field key
Note == [rd |-> 0, kind |-> "note", idx |-> 0, tail |-> "", val |-> <<>>, eq |-> TRUE]

FlagsOf(tennis, professional, n, multi) ==
    [is_tennis |-> tennis, is_professional |-> professional, num_teams |-> n,
     multi_elim |-> multi, is_national |-> FALSE]

\* the suffix map of a page with no clue for Miami (university.py 591-595, 688-695)
DefaultSuffix == (<<"Miami">> :> <<"Miami", "Florida">>)

NoResult == [ret |-> "", err |-> "", games |-> <<>>]

\* seed texts, as they are after strip()
SeedTexts ==
    { <<>>, <<"x">>, <<"7">>, <<"2", "5">>, <<"(", "3", ")">>, <<"1", "-", "4">>,
      <<"a", "(", "3", ")", "b", "(", "4", ")">>, <<"(", "1", "2">>, <<"3", "-", "x">>,
      <<"2", "(", "x", ")", "1">>, <<"(", "2", "5", ")", "7">> }

\* field counts: none, those of the table, and others
NumTeams == {-1, 2, 3, 4, 5, 6, 8, 11, 16, 32}

SeedRounds == {1, 2}

\* positions run past the longest list of the table
MaxPos == 17

\* no text has been handed to the functions that are run on a text of their own
CleanIdle == content = <<>> /\ cleaned = <<>> /\ recleaned = <<>>

\* no name has been handed to normalize_team_name on its own
NameIdle == raw_name = <<>> /\ name_once = <<>> /\ name_twice = <<>>

\* get_disambiguator has not been called on a content of its own
DisambIdle == clues = {} /\ team_name_from = {} /\ calls = <<>>

NoMatchData == [err |-> "", sides |-> <<>>]

\* get_bracket_info has not been called on a bracket of its own
GroupingIdle == bracket_lines = <<>> /\ match_data = NoMatchData

\* a rename table without entries
TablesIdle == team_renames = <<>>

ProfIdle == prof_name = <<>> /\ prof_league = "" /\ prof_out = <<>>

CacheIdle ==
    /\ potential_titles = <<>>
    /\ wiki = <<>>
    /\ cache_from = ""
    /\ depth = 0
    /\ cache_ret = ""

ReplaceIdle ==
    /\ rep_source = <<>>
    /\ rep_page = <<>>
    /\ rep_table = <<>>
    /\ rep_todo = <<>>
    /\ rep_applied = <<>>

LaterIdle == TablesIdle /\ ProfIdle /\ CacheIdle /\ ReplaceIdle

AsideIdle == CleanIdle /\ NameIdle /\ DisambIdle /\ GroupingIdle /\ LaterIdle

(***************************************************************************)
(* SpecSeed: fix_seeding on one side                                       *)
(***************************************************************************)
InitSeed ==
    /\ team_num \in SeedRounds \X (1..MaxPos)
    /\ \E present \in BOOLEAN, t \in SeedTexts :
          /\ present \/ t = <<>>
          /\ team_data = [NoSide(team_num) EXCEPT !.hasSeed = present, !.seed = t]
    /\ \E n \in NumTeams : flags = FlagsOf(FALSE, "", n, FALSE)
    /\ seed_out = -1
    /\ pc = "fix_seeding"
    /\ disambiguator = DefaultSuffix
    /\ page = <<>>
    /\ bi = 0
    /\ bracket_info = <<>>
    /\ ri = 0
    /\ mi = 0
    /\ match_info = <<>>
    /\ result = NoResult
    /\ games = <<>>
    /\ err = ""
    /\ AsideIdle

FixSeedingCall ==
    /\ pc = "fix_seeding"
    /\ seed_out' = fix_seeding(team_num, team_data, flags)
    /\ pc' = "seeded"
    /\ UNCHANGED <<flags, disambiguator, page, bi, bracket_info, ri, mi, match_info,
                   result, games, err, team_num, team_data>>
    /\ UNCHANGED aside_vars

NextSeed == FixSeedingCall

SpecSeed == InitSeed /\ [][NextSeed]_vars

(***************************************************************************)
(* SpecMatch: game_from_match on the lines of one match                    *)
(***************************************************************************)
\* what one side of a match may hold: at most one seed line, at most one team
\* line, and the score lines of a series
SideSeeds == { <<>>, << <<"1">> >>, << <<"8">> >>, << <<"x">> >>, << <<>> >> }

SideTeams ==
    { <<>>, << <<"Duke">> >>, << <<"Lehigh">> >>, << <<"1", "25", "Duke">> >>, << <<>> >> }

SideScores ==
    { <<>>, << <<"7", "0">> >>, << <<"5", "0">> >>, << <<"3">> >>, << <<"1">> >>,
      << <<"-", "1">> >>, << <<"5">> >>, << <<"3">>, <<"1">> >>, << <<>> >> }

SideSpecs == [seeds : SideSeeds, teams : SideTeams, scores : SideScores]

\* the lines of a side: RDr-seedi, RDr-teami, RDr-scorei, RDr-scorei-2
side_lines(rd, idx, ss) ==
    [k \in 1..Len(ss.seeds) |-> Field(rd, "seed", idx, "", ss.seeds[k])]
    \o [k \in 1..Len(ss.teams) |-> Field(rd, "team", idx, "", ss.teams[k])]
    \o [k \in 1..Len(ss.scores) |->
            Field(rd, "score", idx, IF k = 1 THEN "" ELSE "-2", ss.scores[k])]

\* the round and the field count of the bracket the match is in
MatchPlaces == { <<1, -1>>, <<1, 8>>, <<2, 8>> }

InitMatch ==
    /\ \E a \in SideSpecs, b \in SideSpecs, first \in {1, 2}, place \in MatchPlaces,
          multi \in BOOLEAN :
          /\ match_info = IF first = 1
                          THEN side_lines(place[1], 1, a) \o side_lines(place[1], 2, b)
                          ELSE side_lines(place[1], 2, b) \o side_lines(place[1], 1, a)
          /\ flags = FlagsOf(FALSE, "", place[2], multi)
    /\ disambiguator = DefaultSuffix
    /\ result = NoResult
    /\ pc = "game_from_match"
    /\ page = <<>>
    /\ bi = 0
    /\ bracket_info = <<>>
    /\ ri = 0
    /\ mi = 0
    /\ games = <<>>
    /\ err = ""
    /\ team_num = <<0, 0>>
    /\ team_data = NoSide(<<0, 0>>)
    /\ seed_out = -1
    /\ AsideIdle

GameFromMatchCall ==
    /\ pc = "game_from_match"
    /\ result' = game_from_match(match_info, flags, disambiguator)
    /\ pc' = "returned"
    /\ UNCHANGED <<flags, disambiguator, page, bi, bracket_info, ri, mi, match_info,
                   games, err, team_num, team_data, seed_out>>
    /\ UNCHANGED aside_vars

NextMatch == GameFromMatchCall

SpecMatch == InitMatch /\ [][NextMatch]_vars

(***************************************************************************)
(* Spec: get_game over the brackets of one page                            *)
(***************************************************************************)
\* a bracket: the <count>TeamBracket its name starts with (-1 if it does not),
\* whether the name holds TeamBracket-NoSeeds, whether a parameter seeds = n is
\* given, whether the name holds TeamBracket-NFL, and its body: field lines, or
\* the rows of an NFL bracket
Bracket(count, noSeeds, seedsParam, nfl, lines, rows) ==
    [count |-> count, noSeeds |-> noSeeds, seedsParam |-> seedsParam, nfl |-> nfl,
     lines |-> lines, rows |-> rows]

\* the lines of a match with one team line and one score line for each side
Played(rd, m, team_a, score_a, team_b, score_b) ==
    << Field(rd, "team", 2 * m - 1, "", team_a), Field(rd, "score", 2 * m - 1, "", score_a),
       Field(rd, "team", 2 * m, "", team_b), Field(rd, "score", 2 * m, "", score_b) >>

Duke == <<"Duke">>
Lehigh == <<"Lehigh">>
Miami == <<"Miami">>

Bodies ==
    { <<>>,
      \* the higher score first, second, and a tie
      Played(1, 1, Duke, <<"7", "0">>, Lehigh, <<"5", "0">>),
      Played(1, 1, Duke, <<"5", "0">>, Miami, <<"7", "0">>)
          \o Played(2, 1, Lehigh, <<"3">>, Miami, <<"3">>),
      \* a match without scores and one with a score missing between played ones
      Played(1, 1, Duke, <<"3">>, Lehigh, <<"1">>)
          \o << Field(1, "team", 3, "", Duke), Field(1, "team", 4, "", Miami) >>
          \o Played(1, 3, Miami, <<"1">>, Lehigh, <<"3">>)
          \o << Field(2, "team", 1, "", Duke), Field(2, "score", 1, "", <<"7">>),
                Field(2, "team", 2, "", Miami) >>
          \o Played(2, 2, Duke, <<"1">>, Lehigh, <<"0">>),
      \* the rounds out of order in the text, and a series of two games
      Played(2, 1, Duke, <<"2">>, Miami, <<"1">>)
          \o << Field(1, "team", 1, "", Duke), Field(1, "team", 2, "", Lehigh),
                Field(1, "score", 1, "-1", <<"1">>), Field(1, "score", 2, "-1", <<"3">>),
                Field(1, "score", 1, "-2", <<"5">>), Field(1, "score", 2, "-2", <<"4">>),
                Field(1, "score", 1, "-agg", <<"6">>), Field(1, "score", 2, "-agg", <<"7">>) >>,
      \* seeds: given, above MAX_SEED, in the team text
      << Field(1, "seed", 1, "", <<"2", "5">>), Field(1, "team", 1, "", Duke),
         Field(1, "score", 1, "", <<"3">>),
         Field(1, "seed", 2, "", <<"x">>), Field(1, "team", 2, "", <<"1", "25", "Lehigh">>),
         Field(1, "score", 2, "", <<"1">>) >>,
      \* the sides of a series with different numbers of scores, then a played match
      << Field(1, "team", 1, "", Duke), Field(1, "team", 2, "", Lehigh),
         Field(1, "score", 1, "", <<"1">>), Field(1, "score", 2, "", <<"3">>),
         Field(1, "score", 2, "-2", <<"4">>) >>
          \o Played(1, 2, Duke, <<"2">>, Miami, <<"1">>),
      \* a match with one side only
      << Field(1, "team", 1, "", Duke), Field(1, "score", 1, "", <<"7">>) >>,
      \* a side with a score and no team
      Played(1, 1, Duke, <<"2">>, Miami, <<"1">>)
          \o << Field(2, "team", 1, "", Duke), Field(2, "score", 1, "", <<"7">>),
                Field(2, "score", 2, "", <<"9">>) >> }

NflRows ==
    { << << <<"x">> >>,
         << <<>>, <<"1">>, <<"Dallas">>, <<"10">>, <<"3">>, <<"Miami">>, <<"7">> >>,
         << <<>>, <<"3">>, <<"Oakland">>, <<"3">>, <<"1">>, <<"Duke">>, <<"7">>, <<>> >> >>,
      << << <<>>, <<"25">>, <<"Dallas">>, <<"10">>, <<"3">>, <<"Miami">>, <<"7">> >> >>,
      << << <<>>, <<"1">>, <<"Dallas">>, <<"10">>, <<"3">>, <<"Miami">>, <<>> >>,
         << <<>>, <<"1">>, <<"Dallas">>, <<"10">>, <<"3">>, <<"Miami">>, <<"7">> >> >> }

Brackets ==
    {Bracket(c, FALSE, FALSE, FALSE, b, <<>>) : c \in {-1, 4}, b \in Bodies}
    \cup {Bracket(8, FALSE, FALSE, TRUE, <<>>, r) : r \in NflRows}

\* a 4TeamBracket-NoSeeds, and a 4TeamBracket with the parameter seeds = n
UnseededBrackets ==
    {Bracket(4, ns[1], ns[2], FALSE,
             Played(1, 1, Duke, <<"7", "0">>, Lehigh, <<"5", "0">>), <<>>) :
        ns \in {<<TRUE, FALSE>>, <<FALSE, TRUE>>}}

MaxBrackets == 2

\* the pages: brackets one after another, and the pages whose last bracket is
\* one of the unseeded ones, after brackets that may have a field count
Pages ==
    UNION {[1..n -> Brackets] : n \in 0..MaxBrackets}
        \cup {Append(p, b) : p \in UNION {[1..n -> Brackets] : n \in 0..(MaxBrackets - 1)},
                             b \in UnseededBrackets}

\* analyze.py 356-362: the flags get_game builds from the description
PageFlags ==
    { FlagsOf(FALSE, "", -1, FALSE), FlagsOf(FALSE, "", -1, TRUE),
      FlagsOf(FALSE, "NFL_", -1, FALSE) }

Init ==
    /\ page \in Pages
    /\ flags \in PageFlags
    /\ disambiguator = <<>>
    /\ pc = "start"
    /\ bi = 0
    /\ bracket_info = <<>>
    /\ ri = 0
    /\ mi = 0
    /\ match_info = <<>>
    /\ result = NoResult
    /\ games = <<>>
    /\ err = ""
    /\ team_num = <<0, 0>>
    /\ team_data = NoSide(<<0, 0>>)
    /\ seed_out = -1
    /\ AsideIdle

\* the field count of a bracket with the count before it kept, not reset
num_teams_of_carrying(bracket) ==
    IF bracket.count # -1 /\ ~bracket.noSeeds /\ ~bracket.seedsParam THEN bracket.count
    ELSE flags.num_teams

\* analyze.py 334-337
num_teams_of(bracket) ==
    IF bracket.count # -1 /\ ~bracket.noSeeds /\ ~bracket.seedsParam THEN bracket.count ELSE -1

\* a game as get_game yields it, with the place it comes from: the bracket,
\* the round and the match of bracket_info (the row of an NFL bracket, 0), and
\* the position in the series
Yielded(b, r, m, k, game) ==
    [at |-> <<b, r, m, k>>, raw |-> game, game |-> winner_first(game)]

\* analyze.py 274: get_bracket starts with get_disambiguator, which reads
\* flags.tourney (university.py 672-673) when flags.is_professional is set
GetBracket ==
    /\ pc = "start"
    /\ IF flags.is_professional # ""
       THEN /\ pc' = "error"
            /\ err' = "AttributeError: 'Flags' object has no attribute 'tourney'"
            /\ UNCHANGED disambiguator
       ELSE /\ pc' = "bracket"
            /\ disambiguator' = DefaultSuffix
            /\ UNCHANGED err
    /\ UNCHANGED <<flags, page, bi, bracket_info, ri, mi, match_info, result, games,
                   team_num, team_data, seed_out>>
    /\ UNCHANGED aside_vars

\* analyze.py 333-337, 340-341: the next bracket is one of field lines
KeyedBracket ==
    /\ pc = "bracket"
    /\ bi < Len(page)
    /\ ~page[bi + 1].nfl
    /\ bi' = bi + 1
    /\ flags' = [flags EXCEPT !.num_teams = num_teams_of(page[bi + 1])]
    /\ bracket_info' = get_bracket_info(page[bi + 1].lines)
    /\ ri' = 0
    /\ mi' = 0
    /\ pc' = "match"
    /\ UNCHANGED <<disambiguator, page, match_info, result, games, err,
                   team_num, team_data, seed_out>>
    /\ UNCHANGED aside_vars

\* analyze.py 333-339, 363-367: the next bracket is an NFL bracket
NflBracket ==
    /\ pc = "bracket"
    /\ bi < Len(page)
    /\ page[bi + 1].nfl
    /\ bi' = bi + 1
    /\ flags' = [flags EXCEPT !.num_teams = num_teams_of(page[bi + 1])]
    /\ LET out == get_game_from_nfl_bracket(page[bi + 1].rows, disambiguator)
       IN  /\ games' = games \o [k \in 1..Len(out.games) |->
                                    Yielded(bi + 1, out.games[k].row, 0, 1, out.games[k].game)]
           /\ err' = out.err
           /\ pc' = IF out.err = "" THEN "bracket" ELSE "error"
    /\ UNCHANGED <<disambiguator, page, bracket_info, ri, mi, match_info, result,
                   team_num, team_data, seed_out>>
    /\ UNCHANGED aside_vars

\* analyze.py 342: the round has no further match
NextRound ==
    /\ pc = "match"
    /\ ri < Len(bracket_info)
    /\ mi >= Len(bracket_info[ri + 1])
    /\ ri' = ri + 1
    /\ mi' = 0
    /\ UNCHANGED <<flags, disambiguator, page, pc, bi, bracket_info, match_info, result,
                   games, err, team_num, team_data, seed_out>>
    /\ UNCHANGED aside_vars

\* the match loop left at the first match that returns a sentinel
MatchGames_until_sentinel ==
    /\ pc = "match"
    /\ ri < Len(bracket_info)
    /\ mi < Len(bracket_info[ri + 1])
    /\ match_info' = bracket_info[ri + 1][mi + 1]
    /\ result' = game_from_match(bracket_info[ri + 1][mi + 1], flags, disambiguator)
    /\ mi' = mi + 1
    /\ IF result'.err # ""
       THEN /\ pc' = "error"
            /\ err' = result'.err
            /\ UNCHANGED games
       ELSE IF \E k \in 1..Len(result'.games) : Len(result'.games[k]) < 2
       THEN /\ pc' = "error"
            /\ err' = "IndexError: tuple index out of range"
            /\ UNCHANGED games
       ELSE /\ games' = games \o [k \in 1..Len(result'.games) |->
                                     Yielded(bi, ri, mi, k, result'.games[k])]
            /\ pc' = IF result'.ret = "exhausted" THEN pc ELSE "bracket"
            /\ UNCHANGED err
    /\ UNCHANGED <<flags, disambiguator, page, bi, bracket_info, ri,
                   team_num, team_data, seed_out>>
    /\ UNCHANGED aside_vars

\* analyze.py 343-344, 363-367: the games of the next match
MatchGames ==
    /\ pc = "match"
    /\ ri < Len(bracket_info)
    /\ mi < Len(bracket_info[ri + 1])
    /\ match_info' = bracket_info[ri + 1][mi + 1]
    /\ result' = game_from_match(bracket_info[ri + 1][mi + 1], flags, disambiguator)
    /\ mi' = mi + 1
    /\ IF result'.err # ""
       THEN /\ pc' = "error"
            /\ err' = result'.err
            /\ UNCHANGED games
       ELSE IF \E k \in 1..Len(result'.games) : Len(result'.games[k]) < 2
       THEN /\ pc' = "error"
            /\ err' = "IndexError: tuple index out of range"
            /\ UNCHANGED games
       ELSE /\ games' = games \o [k \in 1..Len(result'.games) |->
                                     Yielded(bi, ri, mi, k, result'.games[k])]
            /\ UNCHANGED <<pc, err>>
    /\ UNCHANGED <<flags, disambiguator, page, bi, bracket_info, ri,
                   team_num, team_data, seed_out>>
    /\ UNCHANGED aside_vars

\* analyze.py 342: the bracket has no further round
EndBracket ==
    /\ pc = "match"
    /\ ri >= Len(bracket_info)
    /\ pc' = "bracket"
    /\ UNCHANGED <<flags, disambiguator, page, bi, bracket_info, ri, mi, match_info,
                   result, games, err, team_num, team_data, seed_out>>
    /\ UNCHANGED aside_vars

\* analyze.py 333: the page has no further bracket
EndPage ==
    /\ pc = "bracket"
    /\ bi = Len(page)
    /\ pc' = "done"
    /\ UNCHANGED <<flags, disambiguator, page, bi, bracket_info, ri, mi, match_info,
                   result, games, err, team_num, team_data, seed_out>>
    /\ UNCHANGED aside_vars

Next ==
    \/ GetBracket
    \/ KeyedBracket
    \/ NflBracket
    \/ NextRound
    \/ MatchGames
    \/ EndBracket
    \/ EndPage

Spec == Init /\ [][Next]_vars

(***************************************************************************)
(* The cleaning passes of get_bracket.  A text is a sequence of pieces:    *)
(* an apostrophe, the comment marks "<!--" and "-->", the link marks "[["  *)
(* and "]]", "|", "*", and the letter "a".  No other pass of               *)
(* get_bracket matches a text of these pieces.                             *)
(***************************************************************************)
Pieces == {"'", "<!--", "-->", "[[", "]]", "|", "*", "a"}

\* the number of pieces equal to c a text starts with
RECURSIVE run_length(_, _)
run_length(x, c) ==
    IF x # <<>> /\ Head(x) = c THEN 1 + run_length(Tail(x), c) ELSE 0

\* the text from piece i on
from_piece(x, i) == SubSeq(x, i, Len(x))

\* analyze.py 278, 284: re.sub("'{2,}", '', content)
RECURSIVE remove_quotes(_)
remove_quotes(x) ==
    IF x = <<>> THEN <<>>
    ELSE LET n == run_length(x, "'")
         IN  IF n >= 2 THEN remove_quotes(from_piece(x, n + 1))
             ELSE <<Head(x)>> \o remove_quotes(Tail(x))

\* analyze.py 278, 284: re.sub('<!--.*?-->', '', content) with re.DOTALL
RECURSIVE remove_comments(_)
remove_comments(x) ==
    LET opens == {i \in 1..Len(x) : x[i] = "<!--"}
        i == CHOOSE o \in opens : \A q \in opens : o <= q
        closes == {j \in (i + 1)..Len(x) : x[j] = "-->"}
        j == CHOOSE c \in closes : \A q \in closes : c <= q
    IN  IF opens = {} THEN x
        ELSE IF closes = {} THEN x
        ELSE SubSeq(x, 1, i - 1) \o remove_comments(from_piece(x, j + 1))

\* analyze.py 280, 284: re.sub(r'[†*^~#]', '', content)
remove_markers(x) == LET kept(c) == c # "*" IN SelectSeq(x, kept)

\* the first link mark after the first piece of a text, 0 if there is none
next_mark(x) ==
    LET marks == {k \in 2..Len(x) : x[k] \in {"[[", "]]"}}
    IN  IF marks = {} THEN 0 ELSE CHOOSE k \in marks : \A q \in marks : k <= q

\* analyze.py 286, 293: re.sub(r'\[\[[^\[\]]*?\|([^\[\]]*?)\]\]', r'\1', content)
RECURSIVE piped_links(_)
piped_links(x) ==
    IF x = <<>> THEN <<>>
    ELSE LET k == next_mark(x)
             pipes == {j \in 2..(k - 1) : x[j] = "|"}
             j == CHOOSE p \in pipes : \A q \in pipes : p <= q
         IN  IF Head(x) = "[[" /\ k # 0 /\ x[k] = "]]" /\ pipes # {}
             THEN SubSeq(x, j + 1, k - 1) \o piped_links(from_piece(x, k + 1))
             ELSE <<Head(x)>> \o piped_links(Tail(x))

\* analyze.py 287, 293: re.sub(r'\[\[([^\[\]]*?)\]\]', r'\1', content)
RECURSIVE plain_links(_)
plain_links(x) ==
    IF x = <<>> THEN <<>>
    ELSE LET k == next_mark(x)
         IN  IF Head(x) = "[[" /\ k # 0 /\ x[k] = "]]"
             THEN SubSeq(x, 2, k - 1) \o plain_links(from_piece(x, k + 1))
             ELSE <<Head(x)>> \o plain_links(Tail(x))

\* analyze.py 275-296 on a text of Pieces: the passes that match, in their order
clean(x) == plain_links(piped_links(remove_markers(remove_comments(remove_quotes(x)))))

MaxTextLen == 4

Texts == UNION {[1..n -> Pieces] : n \in 0..MaxTextLen}

PipelineIdle ==
    /\ flags = FlagsOf(FALSE, "", -1, FALSE)
    /\ disambiguator = DefaultSuffix
    /\ page = <<>>
    /\ bi = 0
    /\ bracket_info = <<>>
    /\ ri = 0
    /\ mi = 0
    /\ match_info = <<>>
    /\ result = NoResult
    /\ games = <<>>
    /\ err = ""
    /\ team_num = <<0, 0>>
    /\ team_data = NoSide(<<0, 0>>)
    /\ seed_out = -1

(***************************************************************************)
(* SpecClean: the cleaning passes on one text, and on their own result     *)
(***************************************************************************)
InitClean ==
    /\ content \in Texts
    /\ cleaned = <<>>
    /\ recleaned = <<>>
    /\ pc = "clean"
    /\ PipelineIdle
    /\ NameIdle
    /\ DisambIdle
    /\ GroupingIdle
    /\ LaterIdle

CleanCall ==
    /\ pc = "clean"
    /\ cleaned' = clean(content)
    /\ pc' = "cleaned"
    /\ UNCHANGED <<content, recleaned>>
    /\ UNCHANGED <<called_vars, name_vars, disamb_vars, grouping_vars, later_vars>>

CleanAgain ==
    /\ pc = "cleaned"
    /\ recleaned' = clean(cleaned)
    /\ pc' = "recleaned"
    /\ UNCHANGED <<content, cleaned>>
    /\ UNCHANGED <<called_vars, name_vars, disamb_vars, grouping_vars, later_vars>>

NextClean == CleanCall \/ CleanAgain

SpecClean == InitClean /\ [][NextClean]_vars

(***************************************************************************)
(* SpecName: normalize_team_name on one name, and on its own result        *)
(***************************************************************************)
\* the words of the names: numbers, the prefix 'at', names without and with
\* an entry in the suffix map
NameWords == {"1", "25", "at", "Duke", "Miami", "Augusta", "State", "Oklahoma"}

MaxNameLen == 3

Names == UNION {[1..n -> NameWords] : n \in 0..MaxNameLen}

\* the suffix maps: none, the one of a page with no clue for Miami, and one
\* that also has the output of an alias as a key
SuffixMaps ==
    {<<>>, DefaultSuffix, DefaultSuffix @@ (<<"Augusta">> :> <<"Augusta", "Maine">>)}

\* the rename tables team_renames.json can hold: none, and one that has the
\* output of an alias as a key
RenameTables == {<<>>, (<<"Augusta">> :> <<"Jaguars">>)}

InitName ==
    /\ raw_name \in Names
    /\ name_once = <<>>
    /\ name_twice = <<>>
    /\ pc = "normalize"
    /\ flags = FlagsOf(FALSE, "", -1, FALSE)
    /\ disambiguator \in SuffixMaps
    /\ page = <<>>
    /\ bi = 0
    /\ bracket_info = <<>>
    /\ ri = 0
    /\ mi = 0
    /\ match_info = <<>>
    /\ result = NoResult
    /\ games = <<>>
    /\ err = ""
    /\ team_num = <<0, 0>>
    /\ team_data = NoSide(<<0, 0>>)
    /\ seed_out = -1
    /\ CleanIdle
    /\ DisambIdle
    /\ GroupingIdle
    /\ team_renames \in RenameTables
    /\ ProfIdle
    /\ CacheIdle
    /\ ReplaceIdle

NormalizeCall ==
    /\ pc = "normalize"
    /\ name_once' = normalize_team_name(raw_name, disambiguator)
    /\ pc' = "normalized"
    /\ UNCHANGED <<raw_name, name_twice>>
    /\ UNCHANGED <<called_vars, clean_vars, disamb_vars, grouping_vars, later_vars>>

NormalizeAgain ==
    /\ pc = "normalized"
    /\ name_twice' = normalize_team_name(name_once, disambiguator)
    /\ pc' = "renormalized"
    /\ UNCHANGED <<raw_name, name_once>>
    /\ UNCHANGED <<called_vars, clean_vars, disamb_vars, grouping_vars, later_vars>>

NextName == NormalizeCall \/ NormalizeAgain

SpecName == InitName /\ [][NextName]_vars

(***************************************************************************)
(* get_disambiguator (university.py 661-696).  A content is the set of the *)
(* phrases of the tables that occur in it; a name and a location are texts *)
(* of words.                                                               *)
(***************************************************************************)
Clues ==
    { "Northeastern Huskies", "Northeastern Golden Eagles", "Northeastern (IL)",
      "Hockey East", "Smith Pioneers", "Joseph's Bears", "Miami Red",
      "Miami Hurricanes", "Gamecocks", "Trojans", "Philadelphia Rams",
      "Los Angeles Chargers" }

\* university.py 499-507, the conferences among the phrases of the tables below
conferences ==
    { "Colonial Athletic Association", "Hockey East", "ECAC", "Atlantic 10",
      "Atlantic Coast Conference", "Big East", "Mid-American Conference", "NCHC" }

\* university.py 50-97, the abbreviations among the locations of the tables below
all_state_abbrevs ==
    (<<"CO">> :> <<"Colorado">>) @@ (<<"CT">> :> <<"Connecticut">>)
        @@ (<<"FL">> :> <<"Florida">>) @@ (<<"IL">> :> <<"Illinois">>)
        @@ (<<"IN">> :> <<"Indiana">>) @@ (<<"MA">> :> <<"Massachusetts">>)
        @@ (<<"ME">> :> <<"Maine">>) @@ (<<"NY">> :> <<"New", "York">>)
        @@ (<<"OH">> :> <<"Ohio">>) @@ (<<"PA">> :> <<"Pennsylvania">>)

\* university.py 559-585: Northeastern, Saint Joseph's and Smith with their
\* literal phrases
univ_disambiguations ==
    (<<"Northeastern">> :>
        ((<<"CO">> :> {"Northeastern Junior College"})
            @@ (<<"IL">> :> {"Northeastern Golden Eagles"})
            @@ (<<"MA">> :> {"Northeastern Huskies", "Colonial Athletic Association",
                             "Hockey East", "ECAC"})))
    @@ (<<"Saint", "Joseph's">> :>
        ((<<"Brooklyn">> :> {"Joseph's Bears"})
            @@ (<<"CT">> :> {"Joseph's Blue Jays"})
            @@ (<<"IN">> :> {"St. Joseph's (IN)", "Joseph's Pumas"})
            @@ (<<"Long", "Island">> :> {"Joseph's Golden Eagles"})
            @@ (<<"ME">> :> {"Joseph's Monks"})
            @@ (<<"NY">> :> {})
            @@ (<<"PA">> :> {"Joseph's Hawks", "Atlantic 10"})))
    @@ (<<"Smith">> :>
        ((<<"MA">> :> {"Smith Pioneers"}) @@ (<<"NY">> :> {})))

\* university.py 591-595: Miami, keyed by the name and its default location
univ_disambiguation_defaults ==
    (<< <<"Miami">>, <<"FL">> >> :>
        ((<<"FL">> :> {"Miami Hurricanes", "Atlantic Coast Conference", "Big East"})
            @@ (<<"OH">> :> {"Miami Red", "Mid-American Conference", "NCHC"})))

\* university.py 622-630, for a phrase that is a string
disambiguation_match(phrase, text, is_national) ==
    IF is_national /\ phrase \in conferences THEN FALSE ELSE phrase \in text

\* university.py 531-553: the NFL, keyed by the tournament without its
\* trailing underscores
prof_disambiguations ==
    ("NFL" :>
        ((<<"Los", "Angeles">> :>
            ((<<"Chargers">> :> {}) @@ (<<"Raiders">> :> {}) @@ (<<"Rams">> :> {})))
         @@ (<<"New", "York">> :> ((<<"Giants">> :> {}) @@ (<<"Jets">> :> {})))
         @@ (<<"Saint", "Louis">> :> ((<<"Cardinals">> :> {}) @@ (<<"Rams">> :> {})))))

\* tourney.rstrip('_') for the tournaments of the model
rstrip_underscores(tourney) == IF tourney = "NFL_" THEN "NFL" ELSE tourney

\* the clues in which a name is followed by a form of a location
literal_clues ==
    { [uni |-> <<"Northeastern">>, st |-> <<"IL">>, clue |-> "Northeastern (IL)"],
      [uni |-> <<"Los", "Angeles">>, st |-> <<"Chargers">>, clue |-> "Los Angeles Chargers"] }

\* university.py 633-645
disambiguation_literal(uni, st, text) ==
    \E l \in literal_clues : l.uni = uni /\ l.st = st /\ l.clue \in text

\* university.py 648-658
get_disambiguating_phrases(uni, disambiguation, text, is_national) ==
    { st \in DOMAIN disambiguation :
        \/ disambiguation_literal(uni, st, text)
        \/ \E phrase \in disambiguation[st] : disambiguation_match(phrase, text, is_national) }

\* all_state_abbrevs.get(st, st)
state_of(st) == IF st \in DOMAIN all_state_abbrevs THEN all_state_abbrevs[st] ELSE st

\* f'{uni} {all_state_abbrevs.get(st, st)}' for the one location of a set
suffixed(uni, locations) == uni \o state_of(CHOOSE st \in locations : TRUE)

suffix_map_some_match(table, text, is_national) ==
    LET found(uni) == get_disambiguating_phrases(uni, table[uni], text, is_national)
    IN  [uni \in {u \in DOMAIN table : found(u) # {}} |-> suffixed(uni, found(uni))]

\* university.py 683-687: the names of a table with exactly one location found
suffix_map(table, text, is_national) ==
    LET found(uni) == get_disambiguating_phrases(uni, table[uni], text, is_national)
    IN  [uni \in {u \in DOMAIN table : Cardinality(found(u)) = 1} |-> suffixed(uni, found(uni))]

\* the defaults table read as the other table is: no location found, no entry
default_suffix_map_no_fallback(text, is_national) ==
    LET table == univ_disambiguation_defaults
        key(uni) == CHOOSE k \in DOMAIN table : k[1] = uni
        found(k) == get_disambiguating_phrases(k[1], table[k], text, is_national)
    IN  [uni \in {k[1] : k \in {j \in DOMAIN table : Cardinality(found(j)) = 1}}
            |-> suffixed(uni, found(key(uni)))]

\* university.py 688-695: as above, with the default location when none is found
default_suffix_map(text, is_national) ==
    LET table == univ_disambiguation_defaults
        key(uni) == CHOOSE k \in DOMAIN table : k[1] = uni
        found(k) == get_disambiguating_phrases(k[1], table[k], text, is_national)
        locations(k) == IF found(k) = {} THEN {k[2]} ELSE found(k)
    IN  [uni \in {k[1] : k \in {j \in DOMAIN table : Cardinality(locations(j)) = 1}}
            |-> suffixed(uni, locations(key(uni)))]

\* university.py 664-682: the literal replacements
replacement_map(text) ==
    LET has(phrases) == \E phrase \in phrases : phrase \in text
        fixed == (<<"USC", "Aiken">> :> <<"South", "Carolina", "Aiken">>)
                    @@ (<<"USC", "Spartanburg">> :> <<"South", "Carolina", "Upstate">>)
                    @@ (<<"USC", "Upstate">> :> <<"South", "Carolina", "Upstate">>)
        usc == IF has({"Trojans", "Southern Cal", "Pac-12 Conference"})
                   THEN (<<"USC">> :> <<"Southern", "California">>)
               ELSE IF has({"Gamecocks", "South Car"})
                   THEN (<<"USC">> :> <<"South", "Carolina">>)
               ELSE <<>>
        philadelphia ==
               IF has({"Thomas Jefferson University", "Philadelphia University",
                       "Jefferson Rams", "Philadelphia Rams"})
                   THEN (<<"Philadelphia">> :> <<"Thomas", "Jefferson">>)
               ELSE <<>>
    IN  philadelphia @@ usc @@ fixed

\* the keys of the replacements with the bare 'USC' first
replacement_order_bare_first(text) ==
    LET keys == DOMAIN replacement_map(text)
    IN  (IF <<"USC">> \in keys THEN << <<"USC">> >> ELSE <<>>)
            \o << <<"USC", "Aiken">>, <<"USC", "Spartanburg">>, <<"USC", "Upstate">> >>
            \o (IF <<"Philadelphia">> \in keys THEN << <<"Philadelphia">> >> ELSE <<>>)

\* university.py 664-682: the keys of the replacements in the order the
\* dictionary got them, the order in which items() gives them: the three of
\* the literal, then 'USC' (one key, whichever line set it), then 'Philadelphia'
replacement_order(text) ==
    LET keys == DOMAIN replacement_map(text)
    IN  << <<"USC", "Aiken">>, <<"USC", "Spartanburg">>, <<"USC", "Upstate">> >>
            \o (IF <<"USC">> \in keys THEN << <<"USC">> >> ELSE <<>>)
            \o (IF <<"Philadelphia">> \in keys THEN << <<"Philadelphia">> >> ELSE <<>>)

\* analyze.py 276, re.sub(rf'\b{pattern}\b', repl, content) on a text of words:
\* the occurrences of the pattern, from the left, none inside another
RECURSIVE sub_words(_, _, _)
sub_words(pattern, repl, ws) ==
    IF Len(ws) < Len(pattern) THEN ws
    ELSE IF SubSeq(ws, 1, Len(pattern)) = pattern
         THEN repl \o sub_words(pattern, repl, SubSeq(ws, Len(pattern) + 1, Len(ws)))
         ELSE <<ws[1]>> \o sub_words(pattern, repl, Tail(ws))

\* what a call of get_disambiguator gives: the dictionary, or the exception
DisambiguatorRaised(e) == [err |-> e, suffix |-> <<>>, replacement |-> <<>>]

get_disambiguator_remembering(text, fl) ==
    IF fl.is_professional # "" /\ "tourney" \notin DOMAIN fl
    THEN DisambiguatorRaised("AttributeError")
    ELSE IF fl.is_professional # ""
    THEN [err |-> "",
          suffix |-> suffix_map(prof_disambiguations[rstrip_underscores(fl.tourney)], text,
                                fl.is_national),
          replacement |-> replacement_map(text)]
    ELSE [err |-> "",
          suffix |-> IF team_name_from = {}
                         THEN default_suffix_map(text, fl.is_national)
                                  @@ suffix_map(univ_disambiguations, text, fl.is_national)
                         ELSE default_suffix_map(text, fl.is_national),
          replacement |-> replacement_map(text)]

\* university.py 661-696; analyze.Flags has no field tourney, which line 672
\* reads for a professional tournament; university.Flags has one
get_disambiguator(text, fl) ==
    IF fl.is_professional # "" /\ "tourney" \notin DOMAIN fl
    THEN DisambiguatorRaised("AttributeError")
    ELSE IF fl.is_professional # ""
    THEN [err |-> "",
          suffix |-> suffix_map(prof_disambiguations[rstrip_underscores(fl.tourney)], text,
                                fl.is_national),
          replacement |-> replacement_map(text)]
    ELSE [err |-> "",
          suffix |-> default_suffix_map(text, fl.is_national)
                         @@ suffix_map(univ_disambiguations, text, fl.is_national),
          replacement |-> replacement_map(text)]

(***************************************************************************)
(* SpecDisamb: calls of get_disambiguator on one content, with calls of    *)
(* normalize_team_name in between                                          *)
(***************************************************************************)
MaxCalls == 2

\* the names handed to normalize_team_name between the calls
RawNames == {<<"Miami">>, <<"1", "Duke">>}

\* university.Flags of a professional tournament: analyze.Flags and the tournament
UniversityFlags(tourney) ==
    [is_tennis |-> FALSE, is_professional |-> tourney, num_teams |-> -1,
     multi_elim |-> FALSE, is_national |-> FALSE, tourney |-> tourney]

DisambFlags ==
    { [FlagsOf(FALSE, "", -1, FALSE) EXCEPT !.is_national = FALSE],
      [FlagsOf(FALSE, "", -1, FALSE) EXCEPT !.is_national = TRUE],
      FlagsOf(FALSE, "NFL_", -1, FALSE),
      UniversityFlags("NFL_") }

InitDisamb ==
    /\ clues \in SUBSET Clues
    /\ team_name_from = {}
    /\ calls = <<>>
    /\ pc = "disambiguate"
    /\ flags \in DisambFlags
    /\ disambiguator = DefaultSuffix
    /\ page = <<>>
    /\ bi = 0
    /\ bracket_info = <<>>
    /\ ri = 0
    /\ mi = 0
    /\ match_info = <<>>
    /\ result = NoResult
    /\ games = <<>>
    /\ err = ""
    /\ team_num = <<0, 0>>
    /\ team_data = NoSide(<<0, 0>>)
    /\ seed_out = -1
    /\ CleanIdle
    /\ NameIdle
    /\ GroupingIdle
    /\ LaterIdle

GetDisambiguatorCall ==
    /\ pc = "disambiguate"
    /\ Len(calls) < MaxCalls
    /\ calls' = Append(calls, [seen |-> team_name_from,
                               returned |-> get_disambiguator(clues, flags)])
    /\ UNCHANGED <<clues, team_name_from>>
    /\ UNCHANGED <<pipeline_vars, clean_vars, name_vars, grouping_vars, later_vars>>

\* university.py 883-921: the call leaves the name in _team_name_from
NormalizeTeamNameCall ==
    /\ pc = "disambiguate"
    /\ \E name \in RawNames :
          LET for_set == team_rstrip_common(team_remove_prefix(name))
              value == normalize_team_name(name, disambiguator)
          IN  /\ <<value, for_set>> \notin team_name_from
              /\ team_name_from' = team_name_from \cup {<<value, for_set>>}
    /\ UNCHANGED <<clues, calls>>
    /\ UNCHANGED <<pipeline_vars, clean_vars, name_vars, grouping_vars, later_vars>>

NextDisamb == GetDisambiguatorCall \/ NormalizeTeamNameCall

SpecDisamb == InitDisamb /\ [][NextDisamb]_vars

(***************************************************************************)
(* SpecBracket: get_bracket_info on the lines of one bracket, and          *)
(* get_match_data on a match of its grouping                               *)
(***************************************************************************)
MaxLines == 3

\* the lines a bracket is made of
LinePool ==
    { Field(1, "team", 1, "", Duke),
      Field(1, "team", 2, "", Lehigh),
      Field(1, "score", 1, "", <<"7", "0", "*">>),
      Field(1, "score", 2, "", <<"5", "0">>),
      Field(1, "score", 2, "-2", <<" ", "3", " ", "(", "O", "T", ")">>),
      Field(1, "score", 1, "-agg", <<"6">>),
      Field(1, "scores", 1, "", <<"7">>),
      Field(1, "score", 3, "", <<Dagger, "x">>),
      Field(2, "team", 1, "", Miami),
      KeyOnly(1, "team", 3),
      Note }

BracketLines == UNION {[1..n -> LinePool] : n \in 0..MaxLines}

InitBracket ==
    /\ bracket_lines \in BracketLines
    /\ match_data = NoMatchData
    /\ pc = "group"
    /\ PipelineIdle
    /\ CleanIdle
    /\ NameIdle
    /\ DisambIdle
    /\ LaterIdle

GetBracketInfoCall ==
    /\ pc = "group"
    /\ bracket_info' = get_bracket_info(bracket_lines)
    /\ pc' = "grouped"
    /\ UNCHANGED <<flags, disambiguator, page, bi, ri, mi, match_info, result, games, err,
                   team_num, team_data, seed_out>>
    /\ UNCHANGED <<clean_vars, name_vars, disamb_vars, grouping_vars, later_vars>>

\* analyze.py 230: get_match_data on the lines of a match of the grouping
GetMatchDataCall ==
    /\ pc = "grouped"
    /\ \E r \in 1..Len(bracket_info) : \E m \in 1..Len(bracket_info[r]) :
          /\ ri' = r - 1
          /\ mi' = m - 1
          /\ match_info' = bracket_info[r][m]
          /\ match_data' = IF get_match_data_raises(bracket_info[r][m])
                           THEN [err |-> "AssertionError", sides |-> <<>>]
                           ELSE [err |-> "",
                                 sides |-> get_match_data(bracket_info[r][m], flags,
                                                          disambiguator)]
    /\ pc' = "read"
    /\ UNCHANGED <<flags, disambiguator, page, bi, bracket_info, result, games, err,
                   team_num, team_data, seed_out>>
    /\ UNCHANGED <<clean_vars, name_vars, disamb_vars, bracket_lines, later_vars>>

NextBracket == GetBracketInfoCall \/ GetMatchDataCall

SpecBracket == InitBracket /\ [][NextBracket]_vars

(***************************************************************************)
(* SpecProf: normalize_professional_name on one name                       *)
(***************************************************************************)
ProfWords == {"LA", "UCLA", "at", "Raiders", "Dallas", "Houston", "Oakland"}

MaxProfLen == 3

ProfNames == UNION {[1..n -> ProfWords] : n \in 0..MaxProfLen}

\* analyze.py 359: is_professional is the tourney of the description
ProfLeagues == {"NFL", "NFL_"}

InitProf ==
    /\ prof_name \in ProfNames
    /\ prof_league \in ProfLeagues
    /\ prof_out = <<>>
    /\ pc = "professional"
    /\ PipelineIdle
    /\ CleanIdle
    /\ NameIdle
    /\ DisambIdle
    /\ GroupingIdle
    /\ TablesIdle
    /\ CacheIdle
    /\ ReplaceIdle

\* analyze.py 177-178: the call of normalize_professional_name
NormalizeProfessionalCall ==
    /\ pc = "professional"
    /\ prof_out' = normalize_professional_name(prof_name, prof_league)
    /\ pc' = "professional_named"
    /\ UNCHANGED <<prof_name, prof_league>>
    /\ UNCHANGED <<called_vars, clean_vars, name_vars, disamb_vars, grouping_vars, table_vars,
                   cache_vars, replace_vars>>

NextProf == NormalizeProfessionalCall

SpecProf == InitProf /\ [][NextProf]_vars

(***************************************************************************)
(* SpecCache: create_wiki_cache (analyze.py 416-446) on a list of titles   *)
(* and a wiki that answers each title in one way                           *)
(***************************************************************************)
Titles == {"A", "B", "C"}

MaxTitles == 2

\* sys.getrecursionlimit() is 1000; the model's stack is smaller, and still
\* deeper than every run in which no redirect comes back to a title it left
RecursionLimit == 12

\* pywikibot's answers to page.get(): the content, NoPageError,
\* IsRedirectPageError (with the title of the first link), ConnectionError
Answers ==
    { [kind |-> k, target |-> ""] : k \in {"found", "missing", "offline"} }
        \cup { [kind |-> "redirect", target |-> t] : t \in Titles }

TitleLists == UNION {[1..n -> Titles] : n \in 0..MaxTitles}

InitCache ==
    /\ potential_titles \in TitleLists
    /\ wiki \in [Titles -> Answers]
    /\ cache_from = ""
    /\ depth = 1
    /\ cache_ret = ""
    /\ pc = "cache"
    /\ PipelineIdle
    /\ CleanIdle
    /\ NameIdle
    /\ DisambIdle
    /\ GroupingIdle
    /\ TablesIdle
    /\ ProfIdle
    /\ ReplaceIdle

\* analyze.py 422-424: no title is left
CacheNoTitle ==
    /\ pc = "cache"
    /\ potential_titles = <<>>
    /\ cache_ret' = "False"
    /\ pc' = "cache_returned"
    /\ UNCHANGED <<potential_titles, wiki, cache_from, depth>>

\* analyze.py 425-434: the page of the first title is there, and is written
CacheFound ==
    /\ pc = "cache"
    /\ potential_titles # <<>>
    /\ wiki[potential_titles[1]].kind = "found"
    /\ cache_from' = potential_titles[1]
    /\ potential_titles' = Tail(potential_titles)
    /\ cache_ret' = "True"
    /\ pc' = "cache_returned"
    /\ UNCHANGED <<wiki, depth>>

\* analyze.py 437-439: ConnectionError
CacheOffline ==
    /\ pc = "cache"
    /\ potential_titles # <<>>
    /\ wiki[potential_titles[1]].kind = "offline"
    /\ potential_titles' = Tail(potential_titles)
    /\ cache_ret' = "False"
    /\ pc' = "cache_returned"
    /\ UNCHANGED <<wiki, cache_from, depth>>

\* analyze.py 435-436, 446: NoPageError, and the call on the titles that are left
CacheMissing ==
    /\ pc = "cache"
    /\ potential_titles # <<>>
    /\ wiki[potential_titles[1]].kind = "missing"
    /\ depth < RecursionLimit
    /\ potential_titles' = Tail(potential_titles)
    /\ depth' = depth + 1
    /\ UNCHANGED <<pc, wiki, cache_from, cache_ret>>

\* analyze.py 440-446: IsRedirectPageError, the target is put in front of the
\* titles that are left, and the call on that list
CacheRedirect ==
    /\ pc = "cache"
    /\ potential_titles # <<>>
    /\ wiki[potential_titles[1]].kind = "redirect"
    /\ depth < RecursionLimit
    /\ potential_titles' = <<wiki[potential_titles[1]].target>> \o Tail(potential_titles)
    /\ depth' = depth + 1
    /\ UNCHANGED <<pc, wiki, cache_from, cache_ret>>

\* analyze.py 446: the call on a stack that is full raises RecursionError,
\* which no frame catches
CacheRecursionError ==
    /\ pc = "cache"
    /\ potential_titles # <<>>
    /\ wiki[potential_titles[1]].kind \in {"missing", "redirect"}
    /\ depth = RecursionLimit
    /\ potential_titles' = IF wiki[potential_titles[1]].kind = "missing"
                           THEN Tail(potential_titles)
                           ELSE <<wiki[potential_titles[1]].target>> \o Tail(potential_titles)
    /\ cache_ret' = "RecursionError"
    /\ pc' = "cache_raised"
    /\ UNCHANGED <<wiki, cache_from, depth>>

NextCache ==
    /\ \/ CacheNoTitle
       \/ CacheFound
       \/ CacheOffline
       \/ CacheMissing
       \/ CacheRedirect
       \/ CacheRecursionError
    /\ UNCHANGED <<called_vars, clean_vars, name_vars, disamb_vars, grouping_vars, table_vars,
                   prof_vars, replace_vars>>

SpecCache == InitCache /\ [][NextCache]_vars

\* the calls follow one another in one thread: a step that can be taken is taken
SpecCacheFair == SpecCache /\ WF_vars(NextCache)

(***************************************************************************)
(* SpecReplace: the literal replacements of get_bracket (analyze.py        *)
(* 274-276) on a page of words                                             *)
(***************************************************************************)
PageWords == {"USC", "Aiken", "Spartanburg", "Upstate", "Gamecocks", "Trojans"}

MaxPageLen == 5

WordPages == UNION {[1..n -> PageWords] : n \in 0..MaxPageLen}

\* the phrases of Clues that occur in a page of words
clues_of(ws) == {c \in {"Gamecocks", "Trojans"} : \E i \in 1..Len(ws) : ws[i] = c}

InitReplace ==
    /\ rep_source \in WordPages
    /\ rep_page = rep_source
    /\ rep_table = <<>>
    /\ rep_todo = <<>>
    /\ rep_applied = <<>>
    /\ pc = "disambiguate"
    /\ PipelineIdle
    /\ CleanIdle
    /\ NameIdle
    /\ DisambIdle
    /\ GroupingIdle
    /\ TablesIdle
    /\ ProfIdle
    /\ CacheIdle

\* analyze.py 274: the disambiguator of the page as it came
ReplaceStart ==
    /\ pc = "disambiguate"
    /\ rep_table' = get_disambiguator(clues_of(rep_page), flags).replacement
    /\ rep_todo' = replacement_order(clues_of(rep_page))
    /\ pc' = "replace"
    /\ UNCHANGED <<rep_source, rep_page, rep_applied>>

\* analyze.py 275-276: one turn of the loop over the replacements
ReplaceStep ==
    /\ pc = "replace"
    /\ rep_todo # <<>>
    /\ rep_page' = sub_words(rep_todo[1], rep_table[rep_todo[1]], rep_page)
    /\ rep_todo' = Tail(rep_todo)
    /\ rep_applied' = Append(rep_applied, rep_todo[1])
    /\ UNCHANGED <<pc, rep_source, rep_table>>

\* analyze.py 277: the loop is over
ReplaceDone ==
    /\ pc = "replace"
    /\ rep_todo = <<>>
    /\ pc' = "replaced"
    /\ UNCHANGED replace_vars

NextReplace ==
    /\ \/ ReplaceStart
       \/ ReplaceStep
       \/ ReplaceDone
    /\ UNCHANGED <<called_vars, clean_vars, name_vars, disamb_vars, grouping_vars, table_vars,
                   prof_vars, cache_vars>>

SpecReplace == InitReplace /\ [][NextReplace]_vars

(***************************************************************************)
(* Properties                                                              *)
(***************************************************************************)
Sides(game) == 1..Len(game)

\* C1: every game get_game yields has the score of its first side at least
\* the score of its second side, and its sides are those game_from_match
\* extracted, swapped exactly when the first extracted score is strictly
\* lower (a tie keeps the extraction order).
C1_WinnerFirst ==
    \A i \in 1..Len(games) :
        LET raw == games[i].raw
            game == games[i].game
        IN  /\ game[1].score >= game[2].score
            /\ raw[1].score < raw[2].score => game = <<raw[2], raw[1]>>
            /\ raw[1].score >= raw[2].score => game = raw

\* a page is done that yielded a swapped game and a tied game
C1_Witness ==
    /\ pc = "done"
    /\ \E i \in 1..Len(games) :
          /\ games[i].raw[1].score < games[i].raw[2].score
          /\ games[i].game # games[i].raw
    /\ \E i \in 1..Len(games) :
          /\ games[i].raw[1].score = games[i].raw[2].score
          /\ games[i].raw[1].team # games[i].raw[2].team

\* C2: the seed of every side of every game of a page is in 0..MAX_SEED.
C2_SeedsInRange ==
    \A i \in 1..Len(games) :
        \A s \in Sides(games[i].game) : games[i].game[s].seed \in 0..MAX_SEED

\* C3: a seed fix_seeding assigns by default (a field count is known, the
\* side has no seed line, the round is 1) is entry p of the list of field
\* count n, and 0 when n has no list or p is past the end of the list.
C3_DefaultSeedExact ==
    LET table == (2 :> <<1, 2>>) @@ (3 :> <<2, 3>>) @@ (4 :> <<1, 4, 3, 2>>)
                 @@ (6 :> <<4, 5, 3, 6, 1, 2>>) @@ (8 :> <<1, 8, 4, 5, 2, 7, 3, 6>>)
                 @@ (11 :> <<8, 9, 7, 10, 6, 11>>)
                 @@ (16 :> <<1, 16, 8, 9, 5, 12, 4, 13, 6, 11, 3, 14, 7, 10, 2, 15>>)
        n == flags.num_teams
        p == team_num[2]
    IN  (pc = "seeded" /\ n # -1 /\ ~team_data.hasSeed /\ team_num[1] = 1)
        => seed_out = IF n \in {2, 3, 4, 6, 8, 11, 16} /\ p <= Len(table[n])
                      THEN table[n][p]
                      ELSE 0

\* field count 8, position 2: seed 8
C3_Witness ==
    /\ pc = "seeded"
    /\ flags.num_teams = 8
    /\ ~team_data.hasSeed
    /\ team_num = <<1, 2>>
    /\ seed_out = 8

(***************************************************************************)
(* The lines of a match, read side by side.                                *)
(***************************************************************************)
\* the side numbers of the lines, in the order of their first line
RECURSIVE side_order(_, _)
side_order(lines, seen) ==
    IF lines = <<>> THEN seen
    ELSE LET n == Head(lines).idx
         IN  side_order(Tail(lines),
                        IF \E j \in 1..Len(seen) : seen[j] = n THEN seen ELSE Append(seen, n))

\* the values of the lines of one kind of one side, in the order of the lines
values_of(lines, n, kind) ==
    LET wanted(l) == l.idx = n /\ l.kind = kind
        ls == SelectSeq(lines, wanted)
    IN  [k \in 1..Len(ls) |-> ls[k].val]

\* the scores of a side as integers
scores_of(lines, n) ==
    LET vs == values_of(lines, n, "score") IN [k \in 1..Len(vs) |-> parse_score(vs[k])]

\* the resolved seed of a side that has one seed line
resolved_seed(lines, n) ==
    fix_seeding(<<lines[1].rd, n>>,
                [hasSeed |-> TRUE, seed |-> Strip(values_of(lines, n, "seed")[1])], flags)

\* the normalized team name of a side that has one team line
normalized_name(lines, n) == normalize_team_name(values_of(lines, n, "team")[1], disambiguator)

\* two sides, each with one team line, one seed line and the same number
\* (one or more) of score lines, which are not read as a tally of games won
is_full_series(lines) ==
    LET so == side_order(lines, <<>>)
    IN  /\ Len(so) = 2
        /\ \A i \in 1..2 : /\ Len(values_of(lines, so[i], "team")) = 1
                            /\ Len(values_of(lines, so[i], "seed")) = 1
                            /\ Len(values_of(lines, so[i], "score")) >= 1
        /\ Len(values_of(lines, so[1], "score")) = Len(values_of(lines, so[2], "score"))
        /\ ~(/\ flags.multi_elim
             /\ Len(values_of(lines, so[1], "score")) = 1
             /\ \A i \in 1..2 : scores_of(lines, so[i])[1] < 5)

\* the lines RD1-seed1=1, RD1-team1=Duke, RD1-score1=70, RD1-seed2=8,
\* RD1-team2=Lehigh, RD1-score2=50
DukeLehigh ==
    << Field(1, "seed", 1, "", <<"1">>), Field(1, "team", 1, "", Duke),
       Field(1, "score", 1, "", <<"7", "0">>),
       Field(1, "seed", 2, "", <<"8">>), Field(1, "team", 2, "", Lehigh),
       Field(1, "score", 2, "", <<"5", "0">>) >>

wins(gs, i) ==
    Cardinality({k \in 1..Len(gs) : gs[k][i].score = 1 /\ gs[k][3 - i].score = 0})

\* two sides with one score line each, both scores below 5, under multi_elim
is_tally_match(lines) ==
    LET so == side_order(lines, <<>>)
    IN  /\ flags.multi_elim
        /\ Len(so) = 2
        /\ \A i \in 1..2 : /\ Len(values_of(lines, so[i], "score")) = 1
                            /\ scores_of(lines, so[i])[1] < 5

\* a + b games, a of them (1, 0) and b of them (0, 1)
tallied(gs, a, b) ==
    /\ Len(gs) = a + b
    /\ \A k \in 1..Len(gs) : Len(gs[k]) = 2
    /\ wins(gs, 1) = a
    /\ wins(gs, 2) = b
    /\ wins(gs, 1) + wins(gs, 2) = Len(gs)

\* C5 (as stated): under multi_elim a match of two sides with one score
\* each, a and b, both below 5, yields a + b games, each (1, 0) or (0, 1),
\* a of them won by the first side and b by the second.
C5_AsStated ==
    (pc = "returned" /\ is_tally_match(match_info)) =>
        LET so == side_order(match_info, <<>>)
        IN  /\ result.err = ""
            /\ tallied(result.games, scores_of(match_info, so[1])[1],
                       scores_of(match_info, so[2])[1])

\* C5 (amended): as C5 for sides that both have a team line, a negative
\* score counted as 0: max(a, 0) + max(b, 0) games, max(a, 0) of them won by
\* the first side and max(b, 0) by the second.
C5_TallyGames ==
    (pc = "returned" /\ is_tally_match(match_info)) =>
        LET so == side_order(match_info, <<>>)
            a == scores_of(match_info, so[1])[1]
            b == scores_of(match_info, so[2])[1]
        IN  (\A i \in 1..2 : Len(values_of(match_info, so[i], "team")) = 1)
            => /\ result.err = ""
               /\ tallied(result.games, IF a > 0 THEN a ELSE 0, IF b > 0 THEN b ELSE 0)

\* scores 3 and 1: 4 games, 3 won by the first side and 1 by the second
C5_Witness ==
    /\ pc = "returned"
    /\ is_tally_match(match_info)
    /\ scores_of(match_info, side_order(match_info, <<>>)[1]) = <<3>>
    /\ scores_of(match_info, side_order(match_info, <<>>)[2]) = <<1>>
    /\ Len(result.games) = 4
    /\ wins(result.games, 1) = 3
    /\ wins(result.games, 2) = 1

\* the sides of the lines that have a score line
scored_sides(lines) ==
    {n \in {lines[k].idx : k \in 1..Len(lines)} : values_of(lines, n, "score") # <<>>}

\* C6: a match without any score line yields no game and returns
\* "no scores"; a match in which a side has a score line and another side
\* has none yields no game and returns "missing score"; a match without any
\* score line is never answered with "missing score".
C6_ScoreSentinels ==
    LET all_sides == {match_info[k].idx : k \in 1..Len(match_info)}
        scored == scored_sides(match_info)
    IN  pc = "returned" =>
            /\ scored = {} => result = [ret |-> "no scores", err |-> "", games |-> <<>>]
            /\ (scored # {} /\ scored # all_sides)
                   => result = [ret |-> "missing score", err |-> "", games |-> <<>>]

\* two sides with a team and no score line have been answered
C6_Witness ==
    /\ pc = "returned"
    /\ Len(side_order(match_info, <<>>)) = 2
    /\ scored_sides(match_info) = {}
    /\ \A n \in {1, 2} : values_of(match_info, n, "team") # <<>>
    /\ result.ret = "no scores"

\* a side whose team, seed and score lines are absent or empty
has_no_data(lines, n) ==
    /\ \A k \in 1..Len(lines) : lines[k].idx = n => lines[k].val = <<>>

\* C7: a match in which every side has a score line and some side has no
\* team, no seed and no score data is answered with "missing data".
C7_MissingData ==
    LET all_sides == {match_info[k].idx : k \in 1..Len(match_info)}
    IN  (/\ pc = "returned"
         /\ scored_sides(match_info) = all_sides
         /\ \E n \in all_sides : has_no_data(match_info, n))
        => result.ret = "missing data"

\* game_from_match never answers "missing data"
C7_NeverMissingData == result.ret # "missing data"

(***************************************************************************)
(* The lines of a page, read place by place.                               *)
(***************************************************************************)
\* the lines of match m of round r among the lines of a bracket, in text order
match_lines(lines, r, m) ==
    LET wanted(l) == /\ l.kind \in {"seed", "team", "score"}
                     /\ ~(l.kind = "score" /\ l.tail = "-agg")
                     /\ l.rd = r
                     /\ l.idx \in {2 * m - 1, 2 * m}
    IN  SelectSeq(lines, wanted)

\* what game_from_match makes of match m of round r of bracket b of the page
game_at(b, r, m) ==
    game_from_match(match_lines(page[b].lines, r, m),
                    [flags EXCEPT !.num_teams = num_teams_of(page[b])], DefaultSuffix)

\* the rounds and the matches the lines of a bracket can name, 0 included
rounds_of(lines) == 0..SeqMax(<<0>> \o [k \in 1..Len(lines) |-> lines[k].rd])

matches_of(lines) == 0..SeqMax(<<0>> \o [k \in 1..Len(lines) |-> lines[k].idx])

\* every side of the lines has a score line, and not all the same number of them
differing_lengths(lines) ==
    LET all_sides == {lines[k].idx : k \in 1..Len(lines)}
    IN  /\ scored_sides(lines) = all_sides
        /\ Cardinality({Len(values_of(lines, n, "score")) : n \in all_sides}) > 1

\* place a comes before place b
lex_less(a, b) ==
    \E n \in 1..Len(a) : (\A q \in 1..(n - 1) : a[q] = b[q]) /\ a[n] < b[n]

\* C8: a match whose sides all have scores, in different numbers, makes
\* game_from_match raise KeyError('differing number of scores'); it yields
\* no game, and the exception leaves get_game: no game of that match or of
\* a later place is yielded.
C8_DifferingLengthsRaise ==
    (pc # "start" /\ differing_lengths(match_info)) =>
        /\ result = [ret |-> "", err |-> "KeyError: 'differing number of scores'",
                     games |-> <<>>]
        /\ pc = "error"
        /\ err = "KeyError: 'differing number of scores'"
        /\ \A i \in 1..Len(games) : lex_less(games[i].at, <<bi, ri, mi - 1, 0>>)

\* the second bracket of a page raised after the first yielded games
C8_Witness ==
    /\ pc = "error"
    /\ differing_lengths(match_info)
    /\ bi = 2
    /\ Len(games) > 0
    /\ \E r \in rounds_of(page[bi].lines), m \in matches_of(page[bi].lines) :
          lex_less(<<ri, mi - 1>>, <<r, m>>) /\ game_at(bi, r, m).games # <<>>

\* bracket b of the page has been read to its end
finished(b) == b < bi \/ (b = bi /\ pc \in {"bracket", "done"})

\* C9: once a keyed bracket has been read to its end, every game of every
\* match of it has been yielded, whatever sentinels its other matches (the
\* empty groups of round 0 and match 0 among them) returned.
C9_SentinelsSkipOnly ==
    \A b \in 1..Len(page) :
        (~page[b].nfl /\ finished(b)) =>
            \A r \in rounds_of(page[b].lines), m \in matches_of(page[b].lines) :
                LET out == game_at(b, r, m)
                IN  \A k \in 1..Len(out.games) :
                        \E i \in 1..Len(games) :
                            /\ games[i].at = <<b, r, m, k>>
                            /\ games[i].raw = out.games[k]

\* a page is done with a bracket in which a match with lines returned a
\* sentinel between two matches of its round that yielded games
C9_Witness ==
    /\ pc = "done"
    /\ \E b \in 1..Len(page) :
          /\ ~page[b].nfl
          /\ \E r \in rounds_of(page[b].lines), m \in matches_of(page[b].lines) :
                /\ match_lines(page[b].lines, r, m) # <<>>
                /\ game_at(b, r, m).ret \in {"no scores", "missing score"}
                /\ \E i, j \in 1..Len(games) :
                      /\ games[i].at[1] = b /\ games[i].at[2] = r /\ games[i].at[3] < m
                      /\ games[j].at[1] = b /\ games[j].at[2] = r /\ games[j].at[3] > m

\* C10: each game of a page comes after the game yielded before it in the
\* order of places (bracket, then round, then match, then position in the
\* series), so the games are in the order of their places; each game of a
\* keyed bracket is the game of the lines of its round and match at its
\* position, each game of an NFL bracket the game of its row.
C10_OrderPreserved ==
    /\ \A i \in 1..(Len(games) - 1) : lex_less(games[i].at, games[i + 1].at)
    /\ \A i \in 1..Len(games) :
          LET at == games[i].at
          IN  /\ at[1] \in 1..bi
              /\ IF page[at[1]].nfl
                 THEN /\ at[2] \in 1..Len(page[at[1]].rows)
                      /\ <<at[3], at[4]>> = <<0, 1>>
                      /\ LET pieces == nfl_pieces(page[at[1]].rows[at[2]])
                             k == Len(pieces)
                         IN  /\ k >= 6
                             /\ games[i].raw =
                                    << from_nfl_pieces(pieces[k - 5], pieces[k - 4],
                                                       pieces[k - 3], DefaultSuffix),
                                       from_nfl_pieces(pieces[k - 2], pieces[k - 1],
                                                       pieces[k], DefaultSuffix) >>
                 ELSE LET out == game_at(at[1], at[2], at[3])
                      IN  /\ at[4] \in 1..Len(out.games)
                          /\ games[i].raw = out.games[at[4]]

\* a page of two brackets is done: the first has its second round before its
\* first in the text and a series of two games, and both yielded games
C10_Witness ==
    /\ pc = "done"
    /\ Len(page) = 2
    /\ page[1].lines # <<>>
    /\ page[1].lines[1].rd = 2
    /\ \E i, j, k \in 1..Len(games) :
          /\ i < j /\ j < k
          /\ games[i].at = <<1, 1, 1, 1>>
          /\ games[j].at = <<1, 1, 1, 2>>
          /\ games[k].at = <<1, 2, 1, 1>>
    /\ \E i \in 1..Len(games) : games[i].at[1] = 2

\* C11: the cleaning passes of get_bracket are idempotent: cleaning a
\* cleaned text gives the cleaned text again.
C11_CleanIdempotent == pc = "recleaned" => recleaned = cleaned

\* C12: normalize_team_name is idempotent: the normalized form of a
\* normalized name is that name.
C12_NormalizeIdempotent == pc = "renormalized" => name_twice = name_once

\* the calls of get_disambiguator that returned a dictionary
returned_calls == {i \in DOMAIN calls : calls[i].returned.err = ""}

\* the calls that returned a dictionary for a tournament of universities
university_calls == IF flags.is_professional = "" THEN returned_calls ELSE {}

matching(uni) ==
    get_disambiguating_phrases(uni, univ_disambiguations[uni], clues, flags.is_national)

\* C14 as stated: a name of the non-default table is in the suffix map
\* exactly when one location key matches, and maps to the name, a space and
\* that location key.
C14_AsStated ==
    \A i \in university_calls : \A uni \in DOMAIN univ_disambiguations :
        LET suffix == calls[i].returned.suffix
        IN  /\ uni \in DOMAIN suffix <=> Cardinality(matching(uni)) = 1
            /\ uni \in DOMAIN suffix => suffix[uni] = uni \o (CHOOSE st \in matching(uni) : TRUE)

\* C14: a name of the non-default table is in the suffix map exactly when
\* one location key matches the content, and maps to the name, a space and
\* that location, a state abbreviation written out as the state's name;
\* with no or several matching keys the name is absent and the call returns.
C14_ExactlyOneLocation ==
    \A i \in DOMAIN calls :
        /\ flags.is_professional = "" => i \in university_calls
        /\ i \in university_calls => \A uni \in DOMAIN univ_disambiguations :
              LET suffix == calls[i].returned.suffix
                  st == CHOOSE l \in matching(uni) : TRUE
              IN  /\ uni \in DOMAIN suffix <=> Cardinality(matching(uni)) = 1
                  /\ uni \in DOMAIN suffix =>
                        suffix[uni] = uni \o (IF st \in DOMAIN all_state_abbrevs
                                                  THEN all_state_abbrevs[st] ELSE st)

C14_Witness ==
    /\ university_calls # {}
    /\ Cardinality(matching(<<"Northeastern">>)) = 2
    /\ matching(<<"Saint", "Joseph's">>) = {<<"Brooklyn">>}
    /\ matching(<<"Smith">>) = {}
    /\ \A i \in university_calls :
          calls[i].returned.suffix[<<"Saint", "Joseph's">>] = <<"Saint", "Joseph's", "Brooklyn">>

\* the side handed to fix_seeding has no digit in its seed, or no seed
seed_without_digit ==
    ~(team_data.hasSeed /\ \E i \in 1..Len(team_data.seed) : IsDigit(team_data.seed[i]))

\* C15 as stated: a side without a digit in its seed gets a seed other than
\* 0 only as team index 1 with a field count of the table.
C15_AsStated ==
    (pc = "seeded" /\ seed_without_digit)
        => (seed_out # 0 => (team_num[2] = 1 /\ flags.num_teams \in {2, 3, 4, 6, 8, 11, 16}))

\* C15: a side without a digit in its seed gets a seed other than 0 only
\* in round 1, with no seed field at all, with a field count of 2, 3, 4, 6,
\* 8, 11 or 16 and with a team index within the list of that field count,
\* whatever its team index; every other such side (a later round, an
\* unknown field count, a seed field without a digit) gets seed 0.
C15_DefaultInRoundOne ==
    (pc = "seeded" /\ seed_without_digit)
        => /\ seed_out # 0 => /\ team_num[1] = 1
                               /\ ~team_data.hasSeed
                               /\ flags.num_teams \in {2, 3, 4, 6, 8, 11, 16}
           /\ (team_num[1] # 1 \/ team_data.hasSeed
                   \/ flags.num_teams \notin {2, 3, 4, 6, 8, 11, 16}) => seed_out = 0
           /\ (team_num[1] = 1 /\ ~team_data.hasSeed /\ flags.num_teams = 16
                   /\ team_num[2] <= 16) => seed_out # 0

\* field count 4, round 1, team index 4: seed 2
C15_Witness ==
    /\ pc = "seeded"
    /\ flags.num_teams = 4
    /\ ~team_data.hasSeed
    /\ team_num = <<1, 4>>
    /\ seed_out = 2

\* every side of the lines has a team line and a score line, and all sides
\* have the same number of score lines
is_scored_match(lines) ==
    LET so == side_order(lines, <<>>)
    IN  /\ so # <<>>
        /\ \A i \in 1..Len(so) : /\ values_of(lines, so[i], "team") # <<>>
                                  /\ values_of(lines, so[i], "score") # <<>>
                                  /\ Len(values_of(lines, so[i], "score"))
                                        = Len(values_of(lines, so[1], "score"))

\* the games carry the recorded scores: game k holds score k of every side
scores_unchanged(lines, gs) ==
    LET so == side_order(lines, <<>>)
    IN  /\ Len(gs) = Len(values_of(lines, so[1], "score"))
        /\ \A k \in 1..Len(gs) :
              /\ Len(gs[k]) = Len(so)
              /\ \A i \in 1..Len(so) : gs[k][i].score = scores_of(lines, so[i])[k]

\* C16: the scores are read as a tally of games won only under multi_elim
\* with exactly two sides, one score each, both below 5; a match in any
\* other case (flag off, a side with two or more scores, a score of 5 or
\* more, a single side) has its recorded scores as the scores of its games.
C16_TallyOnlyWhen ==
    (pc = "returned" /\ is_scored_match(match_info) /\ ~is_tally_match(match_info))
        => /\ result.err = ""
           /\ scores_unchanged(match_info, result.games)

\* what the grouping holds at round r, match m: nothing past its ends
placed(r, m) ==
    IF r + 1 <= Len(bracket_info) /\ m + 1 <= Len(bracket_info[r + 1])
    THEN bracket_info[r + 1][m + 1]
    ELSE <<>>

\* C17: get_bracket_info puts the seed, team and score lines of round r with
\* index 2m-1 or 2m, and no other line, into bracket_info[r][m], in their
\* order in the bracket; a score line with the -agg marker is in no match.
C17_Grouping ==
    pc \in {"grouped", "read"} =>
        /\ \A r \in rounds_of(bracket_lines) : \A m \in matches_of(bracket_lines) :
              placed(r, m) = match_lines(bracket_lines, r, m)
        /\ \A r \in 1..Len(bracket_info) : \A m \in 1..Len(bracket_info[r]) :
              \A k \in 1..Len(bracket_info[r][m]) :
                  LET line == bracket_info[r][m][k]
                  IN  /\ line.rd = r - 1
                      /\ (line.idx + 1) \div 2 = m - 1
                      /\ ~(line.kind = "score" /\ line.tail = "-agg")

\* RD1-team2, RD1-score1-agg, RD1-team1: match 1 of round 1 holds the two
\* team lines in this order, and RD1-team3 would be in match 2
C17_Witness ==
    /\ pc = "grouped"
    /\ bracket_lines = << Field(1, "team", 2, "", Lehigh), Field(1, "score", 1, "-agg", <<"6">>),
                          Field(1, "team", 1, "", Duke) >>
    /\ bracket_info = << <<>>, << <<>>, << Field(1, "team", 2, "", Lehigh),
                                           Field(1, "team", 1, "", Duke) >> >> >>

\* C18: a line RD<r>-scores<i> is placed into match (i+1) div 2 of round r,
\* as a line RD<r>-score<i> is.
C18_ScoresGrouped ==
    pc \in {"grouped", "read"} =>
        \A k \in 1..Len(bracket_lines) :
            LET line == bracket_lines[k]
                match == placed(line.rd, (line.idx + 1) \div 2)
            IN  (line.kind = "scores" /\ line.eq)
                    => \E j \in 1..Len(match) : match[j] = line

\* C19: get_match_data raises no AssertionError on a match of the grouping.
C19_AssertionHolds == pc = "read" => match_data.err = ""

\* the integer a score text of the lines of the model stands for
expected_score(val) ==
    CASE val = <<"7", "0", "*">> -> 70
      [] val = <<"5", "0">> -> 50
      [] val = <<" ", "3", " ", "(", "O", "T", ")">> -> 3
      [] OTHER -> 0

\* C20: the scores of a side are the integers of its score lines, markers
\* removed and 0 for a text that is no integer, in the order of the lines
\* and one for each line; no score text makes get_match_data raise.
C20_ScoresParsed ==
    (pc = "read" /\ \A k \in 1..Len(match_info) : match_info[k].eq) =>
        /\ match_data.err = ""
        /\ \A i \in 1..Len(match_data.sides) :
              LET side == match_data.sides[i]
                  texts == values_of(match_info, side.num[2], "score")
              IN  side.scores = [k \in 1..Len(texts) |-> expected_score(texts[k])]

\* RD1-score2=50 and RD1-score2-2= 3 (OT) give side 2 the scores 50, 3 and
\* RD1-score1=70* gives side 1 the score 70
C20_Witness ==
    /\ pc = "read"
    /\ match_data.err = ""
    /\ Len(match_data.sides) = 2
    /\ \E i, j \in 1..2 : /\ match_data.sides[i].num = <<1, 2>>
                           /\ match_data.sides[i].scores = <<50, 3>>
                           /\ match_data.sides[j].num = <<1, 1>>
                           /\ match_data.sides[j].scores = <<70>>

\* the seed of each seed text of the model that holds a digit
expected_seed(text) ==
    CASE text = <<"7">> -> 7
      [] text = <<"2", "5">> -> MAX_SEED
      [] text = <<"(", "3", ")">> -> 3
      [] text = <<"1", "-", "4">> -> 1
      [] text = <<"a", "(", "3", ")", "b", "(", "4", ")">> -> 4
      [] text = <<"(", "1", "2">> -> 12
      [] text = <<"3", "-", "x">> -> 3
      [] text = <<"2", "(", "x", ")", "1">> -> MAX_SEED
      [] text = <<"(", "2", "5", ")", "7">> -> MAX_SEED
      [] OTHER -> -1

\* C21: a seed text with a digit resolves to its parenthesized number if it
\* has one, else to the first number of a text of the form d-d, else to the
\* number its digits form; a result above MAX_SEED becomes MAX_SEED.
C21_SeedPrecedence ==
    (pc = "seeded" /\ ~seed_without_digit)
        => /\ seed_out = expected_seed(team_data.seed)
           /\ seed_out \in 0..MAX_SEED

\* 'a(3)b(4)' resolves to 4, not to 34 cut down to MAX_SEED
C21_Witness ==
    /\ pc = "seeded"
    /\ team_data.hasSeed
    /\ team_data.seed = <<"a", "(", "3", ")", "b", "(", "4", ")">>
    /\ seed_out = 4

\* C22: for Miami, the name of the defaults table: a call for a tournament
\* of universities records Miami Florida, the default, when the content has
\* a clue for neither location, the one location when it has a clue for
\* one, and nothing when it has clues for both; a call for a professional
\* tournament records nothing for Miami.
C22_Defaults ==
    \A i \in DOMAIN calls :
        LET suffix == calls[i].returned.suffix
            florida == "Miami Hurricanes" \in clues
            ohio == "Miami Red" \in clues
        IN  IF flags.is_professional = ""
            THEN /\ calls[i].returned.err = ""
                 /\ (florida /\ ohio) => <<"Miami">> \notin DOMAIN suffix
                 /\ ~(florida /\ ohio) =>
                        /\ <<"Miami">> \in DOMAIN suffix
                        /\ suffix[<<"Miami">>] = IF ohio THEN <<"Miami", "Ohio">>
                                                  ELSE <<"Miami", "Florida">>
            ELSE <<"Miami">> \notin DOMAIN suffix

\* a content with no clue for Miami, the default recorded
C22_Witness ==
    /\ flags.is_professional = ""
    /\ "Miami Hurricanes" \notin clues
    /\ "Miami Red" \notin clues
    /\ "Northeastern Huskies" \in clues
    /\ Len(calls) = 1
    /\ calls[1].returned.suffix[<<"Miami">>] = <<"Miami", "Florida">>

\* C23: for a page of a professional league get_disambiguator, called by
\* get_bracket with the flags get_game built, completes without error.
C23_ProfessionalCompletes ==
    flags.is_professional # "" => err # "AttributeError: 'Flags' object has no attribute 'tourney'"

\* the games yielded for row n of bracket b of the page
games_of_row(b, n) == {i \in 1..Len(games) : games[i].at[1] = b /\ games[i].at[2] = n}

\* C24: of an NFL bracket get_game has worked through, a row with fewer
\* than 6 pieces yields no game, a row with 6 or more pieces yields exactly
\* one game, its sides built from the last six pieces, and no row raises.
C24_NflRows ==
    \A b \in 1..bi : page[b].nfl =>
        \A n \in 1..Len(page[b].rows) :
            LET pieces == nfl_pieces(page[b].rows[n])
                k == Len(pieces)
            IN  /\ k < 6 => games_of_row(b, n) = {}
                /\ k >= 6 =>
                      /\ Cardinality(games_of_row(b, n)) = 1
                      /\ \A i \in games_of_row(b, n) :
                            /\ games[i].raw[1].team
                                  = normalize_professional_name(
                                        normalize_team_name(pieces[k - 4], disambiguator), "NFL")
                            /\ games[i].raw[2].team
                                  = normalize_professional_name(
                                        normalize_team_name(pieces[k - 1], disambiguator), "NFL")

\* the value normalize_team_name has when it reaches the alias table
expanded_value(team_name) ==
    team_remove_suffix(team_rstrip_common(team_remove_prefix(team_name)))

\* C25: when the value after abbreviation expansion fully matches a pattern of
\* the alias table, normalize_team_name returns exactly that alias's output:
\* the suffix map, the Oklahoma rule and the rename table are not applied to
\* it, even if the output is a key of one of them
C25_AliasReturned ==
    pc # "normalize" =>
        \A v \in versions : expanded_value(raw_name) \in v.pattern => name_once = v.output

\* an alias was returned although the suffix map and the rename table both
\* have its output as a key
C25_Witness ==
    /\ pc = "normalized"
    /\ raw_name = <<"25", "Augusta", "State">>
    /\ <<"Augusta">> \in DOMAIN disambiguator
    /\ <<"Augusta">> \in DOMAIN team_renames
    /\ name_once = <<"Augusta">>

\* the three stages with 'LA' rewritten at the start of the name only
professional_name_as_stated(team_name, tourney) ==
    LET replaced == IF Len(team_name) >= 2 /\ team_name[1] = "LA"
                    THEN <<"Los", "Angeles">> \o Tail(team_name)
                    ELSE team_name
        value == collapse_to_city(replaced)
    IN  IF value \in DOMAIN professional_renames THEN professional_renames[value] ELSE value

\* C26: normalize_professional_name rewrites 'LA ' to 'Los Angeles ' only
\* where it is a prefix of the name, then takes the city of the table the name
\* holds that is not one of the league's cities with two teams, then applies
\* the league's rename table by exact match
C26_ThreeStages ==
    pc = "professional_named" => prof_out = professional_name_as_stated(prof_name, prof_league)

\* C27: for every list of titles and every behaviour of the wiki the call of
\* create_wiki_cache eventually returns, True or False
C27_EventuallyReturns == <>(pc = "cache_returned" /\ cache_ret \in {"True", "False"})

\* the keys of the three specific forms
specific_forms == { <<"USC", "Aiken">>, <<"USC", "Spartanburg">>, <<"USC", "Upstate">> }

\* the page with each specific form rewritten to its South Carolina name and
\* every other 'USC' rewritten to bare
RECURSIVE rewritten(_, _)
rewritten(ws, bare) ==
    IF ws = <<>> THEN <<>>
    ELSE IF ws[1] # "USC" THEN <<ws[1]>> \o rewritten(Tail(ws), bare)
    ELSE IF Len(ws) >= 2 /\ ws[2] = "Aiken"
         THEN <<"South", "Carolina", "Aiken">> \o rewritten(SubSeq(ws, 3, Len(ws)), bare)
    ELSE IF Len(ws) >= 2 /\ ws[2] \in {"Spartanburg", "Upstate"}
         THEN <<"South", "Carolina", "Upstate">> \o rewritten(SubSeq(ws, 3, Len(ws)), bare)
    ELSE bare \o rewritten(Tail(ws), bare)

\* C28: the specific forms 'USC Aiken', 'USC Spartanburg' and 'USC Upstate'
\* are rewritten before the bare 'USC' replacement runs, so the page never
\* holds 'Southern California Aiken' (Spartanburg, Upstate), and at the end
\* they have their South Carolina names; on a page with clues for both
\* readings the bare 'USC' becomes 'Southern California'
C28_SpecificFormsFirst ==
    /\ \A i \in 1..Len(rep_applied) :
           rep_applied[i] = <<"USC">> =>
               specific_forms \subseteq {rep_applied[j] : j \in 1..(i - 1)}
    /\ \A w \in {"Aiken", "Spartanburg", "Upstate"} :
           ~Contains(rep_page, <<"Southern", "California", w>>)
    /\ pc = "replaced" =>
           LET both == clues_of(rep_source) = {"Gamecocks", "Trojans"}
               bare == IF <<"USC">> \in DOMAIN rep_table THEN rep_table[<<"USC">>]
                       ELSE <<"USC">>
           IN  /\ both => bare = <<"Southern", "California">>
               /\ rep_page = rewritten(rep_source, bare)

\* a page with clues for both readings, a specific form and a bare 'USC',
\* after the replacements
C28_Witness ==
    /\ pc = "replaced"
    /\ rep_source = <<"Gamecocks", "Trojans", "USC", "Aiken", "USC">>
    /\ rep_applied[4] = <<"USC">>
    /\ rep_page = <<"Gamecocks", "Trojans", "South", "Carolina", "Aiken",
                    "Southern", "California">>

\* C29: every game game_from_match yields is a tuple of exactly two
\* TeamResults, for every group of match lines, a match of which one side
\* only has fields included
C29_TwoTeamResults ==
    pc = "returned" => \A k \in 1..Len(result.games) : Len(result.games[k]) = 2

\* the bracket has a field count of its own: its name starts with
\* <n>TeamBracket, it is no NoSeeds variant and has no parameter seeds = n
has_own_count(bracket) == bracket.count # -1 /\ ~bracket.noSeeds /\ ~bracket.seedsParam

\* C30: the field count is decided for each bracket and does not carry over:
\* while a bracket is read num_teams is its own count, or -1 when it has none,
\* whatever the brackets before it had; and the games a page has yielded from
\* a keyed bracket without a count of its own are the games its matches give
\* without a field count, so none of its sides has a default seed
C30_CountPerBracket ==
    /\ (bi >= 1 /\ pc # "start") =>
          flags.num_teams = IF has_own_count(page[bi]) THEN page[bi].count ELSE -1
    /\ pc \in {"done", "error"} =>
          \A i \in 1..Len(games) :
              LET at == games[i].at
                  lines == match_lines(page[at[1]].lines, at[2], at[3])
              IN  (~page[at[1]].nfl /\ ~has_own_count(page[at[1]])) =>
                      games[i].raw = game_from_match(lines, [flags EXCEPT !.num_teams = -1],
                                                     disambiguator).games[at[4]]

\* a page is done whose first bracket has a field count and gave default
\* seeds, and whose second bracket, a NoSeeds variant, gave none
C30_Witness ==
    /\ pc = "done"
    /\ Len(page) = 2
    /\ has_own_count(page[1])
    /\ page[2].count = 4 /\ page[2].noSeeds
    /\ \E i, j \in 1..Len(games) :
          /\ games[i].at = <<1, 1, 1, 1>>
          /\ games[i].raw[1].seed = 1 /\ games[i].raw[2].seed = 4
          /\ games[j].at = <<2, 1, 1, 1>>
          /\ games[j].raw[1].seed = 0 /\ games[j].raw[2].seed = 0

====
